---- MODULE Spec2Model ----
(***************************************************************************)
(* Model of the WebGL territory layer of OpenFrontIO:                      *)
(*   - the fragment shader of WebGLTerritoryLayer (tile word decoding,     *)
(*     border detection, colour choice),                                   *)
(*   - TextureData (CPU buffer mirrored into a GPU texture),               *)
(*   - ColorPalette (dirty-checked palette buffer),                        *)
(*   - WebGLTerritoryLayer (init / renderLayer / dispose),                 *)
(*   - setUniform (the two implementations).                               *)
(*                                                                         *)
(* Floats that the shader handles are all multiples of 1/510 (a byte over  *)
(* 255, or the 0.5 mix of two of them); a float f is written as the        *)
(* integer f * 510.                                                        *)
(***************************************************************************)
EXTENDS Integers, Sequences, FiniteSets, TLC

VARIABLES
  \* ---- tile word decoding (pure function inputs / outputs)
  tileIn,           \* the triple (ownerId, isFallout, hasDefenseBonus) to encode
  tileOut,          \* DecodeTileData of the encoded word, or NoValue
  \* ---- one fragment shader invocation
  u_tileTexture,    \* GPU tile texture: [width, height, data]
  u_paletteTexture, \* GPU palette texture: [width, height, data]
  fragCoord,        \* texel <<x, y>> the fragment covers
  shaderUniforms,   \* the uniforms of the program
  fragOut,          \* what the invocation computed, or NoValue
  \* ---- one TextureData and its WebGL context
  td,               \* the TextureData object
  gl,               \* the context: the texture objects it holds
  texCall,          \* the last call made on td: [op, row, x, y, src, threw]
  \* ---- one call of setUniform
  uniIn,            \* [g, location, value, uniformInfo]
  uniOut,           \* [impl, out] of the call, or NoValue
  \* ---- one WebGLTerritoryLayer and the game it draws
  gameView,         \* [theme, playerCount, focused, ownerBuffer, updates]
  clock,            \* Date.now()
  layer,            \* the fields of the layer
  ctx,              \* the WebGL2 context of its canvas (Null before init)
  frame,            \* what the last call on the layer did, and how the
                    \* setup of init() went
  dragged,          \* Date.now() at the last DragEvent, 0 before the first
  \* ---- one UniformSetter
  setter,           \* [program, locationCache, uniformInfoCache]
  setterGl,         \* the context it uploads to
  setCall,          \* the last call made on it: [op, uniforms, outs, program,
                    \* again, started], again being whether its names
                    \* were all cached before and started the program in
                    \* use when the call began
  \* ---- one ColorPalette of a narrow texture
  palette,          \* the fields of the ColorPalette
  paletteGame,      \* [theme, playerCount] of the game it reads
  paletteCall       \* the last call made on it: [op, recomputed, stores],
                    \* stores being the stores <<index, value>> of the call
                    \* in program order

tileVars    == <<tileIn, tileOut>>
shaderVars  == <<u_tileTexture, u_paletteTexture, fragCoord, shaderUniforms,
                 fragOut>>
textureVars == <<td, gl, texCall>>
uniformVars == <<uniIn, uniOut>>
layerVars   == <<gameView, clock, layer, ctx, frame, dragged>>
setterVars  == <<setter, setterGl, setCall>>
paletteVars == <<palette, paletteGame, paletteCall>>
vars        == <<tileVars, shaderVars, textureVars, uniformVars, layerVars,
                 setterVars, paletteVars>>

NoValue == [none |-> TRUE]

(***************************************************************************)
(* Integer helpers                                                         *)
(***************************************************************************)
Min(a, b) == IF a < b THEN a ELSE b
Max(a, b) == IF a > b THEN a ELSE b

RECURSIVE BitAnd(_, _)
\* a & b on non-negative integers
BitAnd(a, b) ==
  IF a = 0 \/ b = 0 THEN 0
  ELSE (a % 2) * (b % 2) + 2 * BitAnd(a \div 2, b \div 2)

RECURSIVE BitOr(_, _)
\* a | b on non-negative integers
BitOr(a, b) ==
  IF a = 0 THEN b
  ELSE IF b = 0 THEN a
  ELSE Max(a % 2, b % 2) + 2 * BitOr(a \div 2, b \div 2)

RECURSIVE BitXor(_, _)
\* a ^ b on non-negative integers
BitXor(a, b) ==
  IF a = 0 THEN b
  ELSE IF b = 0 THEN a
  ELSE ((a + b) % 2) + 2 * BitXor(a \div 2, b \div 2)

\* b ? 1 : 0
\* Body applied to the value of e, which is computed once
With(e, Body(_)) == CHOOSE r \in {Body(x) : x \in {e}} : TRUE

BoolBit(b) == IF b THEN 1 ELSE 0

\* the float 1.0
FloatOne == 2 * 255
\* a byte of a normalized texture, or a colour channel over 255.0
Unorm(byte) == 2 * byte

(***************************************************************************)
(* Element buffers (Uint8Array / Uint16Array) and GPU textures.            *)
(* A zero-filled array of `len` elements is kept as the function of its    *)
(* non-zero elements, so that a 4096-column palette costs nothing to hold. *)
(***************************************************************************)
\* new Uint8Array(n) / new Uint16Array(n): n zero elements of `kind`
NewArray(kind, n) == [kind |-> kind, len |-> n, data |-> <<>>]

\* array[i] for an index inside the array
Elem(arr, i) == IF i \in DOMAIN arr.data THEN arr.data[i] ELSE 0

\* the element a typed array keeps of a stored number: ToUint8 / ToUint16
ToElem(kind, v) == IF kind = "Uint16Array" THEN v % 65536 ELSE v % 256

\* array[i] = v: a store outside 0..len-1 is ignored by a typed array
StoreElem(arr, i, v) ==
  IF i < 0 \/ i >= arr.len THEN arr
  ELSE LET w == ToElem(arr.kind, v)
           d == (DOMAIN arr.data) \ {i}
       IN  [arr EXCEPT !.data =
              [j \in (IF w = 0 THEN d ELSE d \cup {i}) |->
                 IF j = i THEN w ELSE arr.data[j]] @@ <<>>]

(***************************************************************************)
(* Theme colours (collaborator: Theme of core/configuration).  A colour is *)
(* the rgba record of a Colord (channels 0..255, alpha 0 or 1); themes are *)
(* numbered 1..NumThemes and give every (player, palette row) a colour of  *)
(* its own.                                                                *)
(***************************************************************************)
NumThemes == 2
Themes == 1..NumThemes

PALETTE_TEXTURE_HEIGHT == 6
MAX_UNIQUE_PLAYER_COLORS == 4096

\* theme.territoryColor / specialBuildingColor / railroadColor / borderColor /
\* defendedBorderColors(player).light / .dark, as palette rows 0..5
ThemeColor(theme, smallId, row) ==
  LET k == 60 * theme + 7 * smallId + 11 * row
  IN  [r |-> k % 256, g |-> (k + 85) % 256, b |-> (3 * k) % 256,
       a |-> k % 2]

\* theme.focusedBorderColor()
FocusedBorderColor(theme) == [r |-> 230 + theme, g |-> 230, b |-> 230, a |-> 1]

\* theme.falloutColor()
FalloutColor(theme) == [r |-> 120, g |-> 250 + theme, b |-> 71, a |-> 1]

(***************************************************************************)
(* JavaScript numbers that may be NaN: <<k>> is the number k, <<>> is NaN. *)
(***************************************************************************)
NaN == <<>>
JsNum(k) == <<k>>
JsMul(a, b) == IF a = NaN \/ b = NaN THEN NaN ELSE <<a[1] * b[1]>>
JsAdd(a, b) == IF a = NaN \/ b = NaN THEN NaN ELSE <<a[1] + b[1]>>
\* n[0] for a number n: undefined, which arithmetic turns into NaN
NumberIndex0(n) == NaN

\* array[index] = v where index is a JavaScript number: the key NaN is a
\* numeric key that is no valid index, and the store does nothing
StoreAt(arr, index, v) ==
  IF index = NaN THEN arr ELSE StoreElem(arr, index[1], v)

(***************************************************************************)
(* The WebGL context: the texture objects it holds.  A handle is the       *)
(* number of the texture in allocation order; `uploads` counts the image   *)
(* uploads made to it and `deletes` the deleteTexture calls that named it. *)
(***************************************************************************)
Null == [null |-> TRUE]
NewGl == [textures |-> <<>>]

\* WebGLUtils.createTexture: a new texture object holding `arr`
WebGLUtils_createTexture(g, width, height, arr) ==
  [g EXCEPT !.textures = Append(g.textures,
     [width |-> width, height |-> height, data |-> arr, uploads |-> 1,
      deletes |-> 0])]

\* gl.bindTexture + gl.texImage2D: the full contents of texture h replaced
texImage2D(g, h, width, height, arr) ==
  [g EXCEPT !.textures[h].width = width, !.textures[h].height = height,
            !.textures[h].data = arr,
            !.textures[h].uploads = g.textures[h].uploads + 1]

\* gl.deleteTexture(h): the storage of the texture is gone
deleteTexture(g, h) ==
  [g EXCEPT !.textures[h].deletes = g.textures[h].deletes + 1,
            !.textures[h].data = Null]

(***************************************************************************)
(* setUniform.  A JavaScript number v is the integer v * 510 inside <<_>>  *)
(* (so 1.0 is <<510>> and 0.5 is <<255>>), undefined and NaN are <<>>.     *)
(* A value handed to setUniform is a record tagged with its shape:         *)
(*   [t |-> "number", n |-> <<k>>]      [t |-> "boolean", b |-> b]         *)
(*   [t |-> "array", v |-> seq]         a JavaScript array of numbers      *)
(*   [t |-> "Float32Array", v |-> seq]  [t |-> "Int32Array", v |-> seq]    *)
(*   [t |-> "rgba" or "Colord", rgba |-> [r, g, b, a]]   a colour object   *)
(*   [t |-> "object"]  [t |-> "undefined"]                                 *)
(* The outcome of a call is [calls, raised, logged]: the gl.uniform* calls *)
(* issued, whether an Error was thrown (and logged by the catch), and      *)
(* whether console.error was called without one.                           *)
(***************************************************************************)
\* the integer n as a JavaScript number
JsInt(n) == <<n * FloatOne>>
\* Math.floor(x)
MathFloor(x) == IF x = NaN THEN NaN ELSE JsInt(x[1] \div FloatOne)
\* x | 0 (for numbers within the 32-bit range)
OrZero(x) ==
  IF x = NaN THEN JsInt(0)
  ELSE IF x[1] >= 0 THEN JsInt(x[1] \div FloatOne)
  ELSE JsInt(- ((- x[1]) \div FloatOne))
\* x ? 1 : 0 for a number x
Truthy(x) == x # NaN /\ x[1] # 0
\* x / 255.0
Over255(x) == IF x = NaN THEN NaN ELSE <<x[1] \div 255>>
\* x * 255
Times255(x) == IF x = NaN THEN NaN ELSE <<x[1] * 255>>
\* value[i] of a JavaScript array (undefined past the end)
At(seq, i) == IF i < Len(seq) THEN seq[i + 1] ELSE NaN

GlCall(fn, args) == [fn |-> fn, args |-> args]
Issued(call) == [calls |-> <<call>>, raised |-> FALSE, logged |-> FALSE]
\* throw new Error(...), caught and logged by the catch of setUniform
Raised == [calls |-> <<>>, raised |-> TRUE, logged |-> TRUE]
\* console.error(...) and nothing else
Logged == [calls |-> <<>>, raised |-> FALSE, logged |-> TRUE]
\* nothing at all
Skipped == [calls |-> <<>>, raised |-> FALSE, logged |-> FALSE]

\* a number and a Colord as values handed to setUniform
NumberValue(x) == [t |-> "number", n |-> x]
ColordValue(c) ==
  [t |-> "Colord",
   rgba |-> [r |-> JsInt(c.r), g |-> JsInt(c.g), b |-> JsInt(c.b),
             a |-> JsInt(c.a)]]

\* the types of WebGL2 only
WebGL2Types ==
  {"SAMPLER_2D_ARRAY", "UNSIGNED_INT_SAMPLER_2D", "INT_SAMPLER_2D",
   "UNSIGNED_INT"}

\* the Float32Array and Int32Array branches, the same in both implementations
TypedArrayUniform(value) ==
  LET n == Len(value.v)
  IN  IF value.t = "Float32Array"
      THEN CASE n = 1 -> Issued(GlCall("uniform1fv", value.v))
             [] n = 2 -> Issued(GlCall("uniform2fv", value.v))
             [] n = 3 -> Issued(GlCall("uniform3fv", value.v))
             [] n = 4 -> Issued(GlCall("uniform4fv", value.v))
             [] n = 9 -> Issued(GlCall("uniformMatrix3fv", value.v))
             [] n = 16 -> Issued(GlCall("uniformMatrix4fv", value.v))
             [] OTHER -> Raised
      ELSE CASE n = 1 -> Issued(GlCall("uniform1iv", value.v))
             [] n = 2 -> Issued(GlCall("uniform2iv", value.v))
             [] n = 3 -> Issued(GlCall("uniform3iv", value.v))
             [] n = 4 -> Issued(GlCall("uniform4iv", value.v))
             [] OTHER -> Raised

\* the float vector fallback of UniformSetter.ts, by the length of the array
FloatVectorByLength(v) ==
  CASE Len(v) = 2 -> Issued(GlCall("uniform2f", <<At(v, 0), At(v, 1)>>))
    [] Len(v) = 3 ->
         Issued(GlCall("uniform3f", <<At(v, 0), At(v, 1), At(v, 2)>>))
    [] Len(v) = 4 ->
         Issued(GlCall("uniform4f", <<At(v, 0), At(v, 1), At(v, 2), At(v, 3)>>))
    [] OTHER -> Raised

\* the rgb / rgba fallback of UniformSetter.ts for a colour object
ColorByAlpha(rgba) ==
  IF rgba.a = NaN \/ rgba.a = JsInt(1) \/ rgba.a = JsInt(255)
  THEN Issued(GlCall("uniform3f",
         <<Over255(rgba.r), Over255(rgba.g), Over255(rgba.b)>>))
  ELSE Issued(GlCall("uniform4f",
         <<Over255(rgba.r), Over255(rgba.g), Over255(rgba.b),
           Over255(rgba.a)>>))

\* setUniform of UniformSetter.ts; g is the context [webgl2, currentProgram]
setUniform(g, location, value, uniformInfo) ==
  IF g.currentProgram = Null THEN Logged
  ELSE IF value.t \in {"Float32Array", "Int32Array"}
  THEN TypedArrayUniform(value)
  ELSE IF value.t = "number"
  THEN IF uniformInfo # Null
       THEN LET type == uniformInfo.type
            IN  CASE type \in {"SAMPLER_2D", "SAMPLER_CUBE"} ->
                       Issued(GlCall("uniform1i", <<MathFloor(value.n)>>))
                  [] type \in {"SAMPLER_2D_ARRAY", "UNSIGNED_INT_SAMPLER_2D",
                               "INT_SAMPLER_2D"} /\ g.webgl2 ->
                       Issued(GlCall("uniform1i", <<MathFloor(value.n)>>))
                  [] type = "FLOAT" ->
                       Issued(GlCall("uniform1f", <<value.n>>))
                  [] type = "INT" ->
                       Issued(GlCall("uniform1i", <<MathFloor(value.n)>>))
                  [] type \in {"INT_VEC2", "INT_VEC3", "INT_VEC4"} -> Raised
                  [] type = "UNSIGNED_INT" /\ g.webgl2 ->
                       Issued(GlCall("uniform1ui",
                         <<IF MathFloor(value.n) = NaN THEN NaN
                           ELSE JsInt(Max(0, MathFloor(value.n)[1] \div FloatOne))>>))
                  [] type = "BOOL" ->
                       Issued(GlCall("uniform1i",
                         <<JsInt(BoolBit(Truthy(value.n)))>>))
                  [] OTHER -> Skipped
       ELSE Issued(GlCall("uniform1f", <<value.n>>))
  ELSE IF value.t = "boolean"
  THEN Issued(GlCall("uniform1i", <<JsInt(BoolBit(value.b))>>))
  ELSE IF value.t = "array"
  THEN IF uniformInfo # Null
       THEN LET type == uniformInfo.type
                v == value.v
            IN  CASE type = "INT_VEC2" ->
                       IF Len(v) = 2
                       THEN Issued(GlCall("uniform2i",
                              <<MathFloor(At(v, 0)), MathFloor(At(v, 1))>>))
                       ELSE Raised
                  [] type = "INT_VEC3" ->
                       IF Len(v) = 3
                       THEN Issued(GlCall("uniform3i",
                              <<MathFloor(At(v, 0)), MathFloor(At(v, 1)),
                                MathFloor(At(v, 2))>>))
                       ELSE Raised
                  [] type = "INT_VEC4" ->
                       IF Len(v) = 4
                       THEN Issued(GlCall("uniform4i",
                              <<MathFloor(At(v, 0)), MathFloor(At(v, 1)),
                                MathFloor(At(v, 2)), MathFloor(At(v, 3))>>))
                       ELSE Raised
                  [] OTHER -> FloatVectorByLength(v)
       ELSE FloatVectorByLength(value.v)
  ELSE IF value.t \in {"rgba", "Colord"}
  THEN LET rgba == value.rgba
       IN  IF uniformInfo # Null
           THEN CASE uniformInfo.type = "FLOAT_VEC3" ->
                       Issued(GlCall("uniform3f",
                         <<Over255(rgba.r), Over255(rgba.g), Over255(rgba.b)>>))
                  [] uniformInfo.type = "FLOAT_VEC4" ->
                       Issued(GlCall("uniform4f",
                         <<Over255(rgba.r), Over255(rgba.g), Over255(rgba.b),
                           IF rgba.a # NaN THEN Over255(rgba.a)
                           ELSE JsInt(1)>>))
                  [] uniformInfo.type = "INT_VEC3" ->
                       Issued(GlCall("uniform3i",
                         <<OrZero(rgba.r), OrZero(rgba.g), OrZero(rgba.b)>>))
                  [] uniformInfo.type = "INT_VEC4" ->
                       Issued(GlCall("uniform4i",
                         <<OrZero(rgba.r), OrZero(rgba.g), OrZero(rgba.b),
                           OrZero(IF rgba.a # NaN THEN rgba.a
                                  ELSE JsInt(255))>>))
                  [] OTHER -> ColorByAlpha(rgba)
           ELSE ColorByAlpha(rgba)
  ELSE Logged

\* the colour branches of part_000 (Colord and any object with rgba): the
\* alpha of a Colord is in 0..1
ColorByType(rgba, type) ==
  LET intAlpha == IF rgba.a = NaN THEN JsInt(255) ELSE Times255(rgba.a)
      floatAlpha == rgba.a
  IN  CASE type = "INT_VEC3" ->
             Issued(GlCall("uniform3i",
               <<OrZero(rgba.r), OrZero(rgba.g), OrZero(rgba.b)>>))
        [] type = "INT_VEC4" ->
             Issued(GlCall("uniform4i",
               <<OrZero(rgba.r), OrZero(rgba.g), OrZero(rgba.b),
                 OrZero(intAlpha)>>))
        [] type = "FLOAT_VEC3" ->
             Issued(GlCall("uniform3f",
               <<Over255(rgba.r), Over255(rgba.g), Over255(rgba.b)>>))
        [] type = "FLOAT_VEC4" ->
             Issued(GlCall("uniform4f",
               <<Over255(rgba.r), Over255(rgba.g), Over255(rgba.b),
                 floatAlpha>>))
        [] OTHER -> Raised

\* setUniform of part_000
setUniform_part000(g, location, value, uniformInfo) ==
  IF g.currentProgram = Null THEN Logged
  ELSE IF uniformInfo = Null THEN Raised
  ELSE IF location = Null THEN Raised
  ELSE IF value.t \in {"Float32Array", "Int32Array"}
  THEN TypedArrayUniform(value)
  ELSE LET type == uniformInfo.type
           v == value.v
       IN
  IF value.t = "number"
  THEN CASE type \in {"SAMPLER_2D", "SAMPLER_CUBE", "SAMPLER_2D_ARRAY",
                      "UNSIGNED_INT_SAMPLER_2D", "INT_SAMPLER_2D", "INT"} ->
              Issued(GlCall("uniform1i", <<OrZero(value.n)>>))
         [] type = "FLOAT" -> Issued(GlCall("uniform1f", <<value.n>>))
         [] type = "BOOL" ->
              Issued(GlCall("uniform1i", <<JsInt(BoolBit(Truthy(value.n)))>>))
         [] type \in {"INT_VEC2", "INT_VEC3", "INT_VEC4"} -> Raised
         [] type = "UNSIGNED_INT" ->
              Issued(GlCall("uniform1ui",
                <<IF value.n # NaN /\ value.n[1] < 0 THEN JsInt(0) ELSE OrZero(value.n)>>))
         [] OTHER -> Skipped
  ELSE IF value.t = "boolean"
  THEN LET bit == JsInt(BoolBit(value.b))
       IN  CASE type = "BOOL" -> Issued(GlCall("uniform1i", <<bit>>))
             [] type = "BOOL_VEC2" -> Issued(GlCall("uniform2i", <<bit, bit>>))
             [] type = "BOOL_VEC3" ->
                  Issued(GlCall("uniform3i", <<bit, bit, bit>>))
             [] type = "BOOL_VEC4" ->
                  Issued(GlCall("uniform4i", <<bit, bit, bit, bit>>))
             [] OTHER -> Raised
  ELSE IF value.t = "array"
  THEN CASE type = "INT_VEC2" ->
              Issued(GlCall("uniform2i", <<OrZero(At(v, 0)), OrZero(At(v, 1))>>))
         [] type = "INT_VEC3" ->
              Issued(GlCall("uniform3i",
                <<OrZero(At(v, 0)), OrZero(At(v, 1)), OrZero(At(v, 2))>>))
         [] type = "INT_VEC4" ->
              Issued(GlCall("uniform4i",
                <<OrZero(At(v, 0)), OrZero(At(v, 1)), OrZero(At(v, 2)),
                  OrZero(At(v, 3))>>))
         [] type = "FLOAT_VEC2" ->
              Issued(GlCall("uniform2f", <<At(v, 0), At(v, 1)>>))
         [] type = "FLOAT_VEC3" ->
              Issued(GlCall("uniform3f", <<At(v, 0), At(v, 1), At(v, 2)>>))
         [] type = "FLOAT_VEC4" ->
              Issued(GlCall("uniform4f",
                <<At(v, 0), At(v, 1), At(v, 2), At(v, 3)>>))
         [] type = "FLOAT_MAT2" -> Issued(GlCall("uniformMatrix2fv", v))
         [] type = "FLOAT_MAT3" -> Issued(GlCall("uniformMatrix3fv", v))
         [] type = "FLOAT_MAT4" -> Issued(GlCall("uniformMatrix4fv", v))
         [] OTHER -> Raised
  ELSE IF value.t \in {"Colord", "rgba"}
  THEN ColorByType(value.rgba, type)
  ELSE Logged

\* what the program receives: a float argument (in units of 1/510) and an
\* integer argument of a gl.uniform* call
GlFloat(x) == x[1]
GlInt(x) == IF x = NaN THEN 0 ELSE x[1] \div FloatOne

\* the arguments of the call setUniform of UniformSetter.ts issues for a
\* value and a uniform of a type, in a WebGL2 context with the program bound
UploadedArgs(value, type) ==
  setUniform([webgl2 |-> TRUE, currentProgram |-> [program |-> 1]],
             [location |-> 1], value, [type |-> type, name |-> "u"]
            ).calls[1].args

(***************************************************************************)
(* TextureData                                                             *)
(***************************************************************************)
\* constructor
NewTextureData(width, height, bpp, datatype) ==
  LET stride == bpp * width
      totalBytes == height * stride
  IN  [width |-> width, height |-> height, bpp |-> bpp, stride |-> stride,
       datatype |-> datatype, gpuTexture |-> Null,
       bytes |-> IF datatype = "UNSIGNED_SHORT"
                 THEN NewArray("Uint16Array", totalBytes)
                 ELSE NewArray("Uint8Array", totalBytes)]

TextureData_dispose_KeepHandle(t, g) ==
  [td |-> t,
   gl |-> IF t.gpuTexture # Null THEN deleteTexture(g, t.gpuTexture.handle)
          ELSE g]

\* dispose(): [the texture data, the context] afterwards
TextureData_dispose(t, g) ==
  [td |-> [t EXCEPT !.gpuTexture = Null],
   gl |-> IF t.gpuTexture # Null THEN deleteTexture(g, t.gpuTexture.handle)
          ELSE g]

getRowIndex(t, row) == JsMul(JsNum(row), NumberIndex0(t.stride))

\* TypedArray.prototype.set(source, at): a RangeError when it does not fit
ArraySet(target, source, at) ==
  IF at + source.len > target.len
  THEN [threw |-> TRUE, arr |-> target]
  ELSE [threw |-> FALSE,
        arr |-> [target EXCEPT !.data =
                   LET keep == {j \in DOMAIN target.data :
                                  j < at \/ j >= at + source.len}
                       put  == {at + j : j \in DOMAIN source.data}
                   IN  [j \in keep \cup put |->
                          IF j \in put THEN source.data[j - at]
                          ELSE target.data[j]] @@ <<>>]]

\* setBytes(bytes, offset): [threw, td]
setBytes(t, src, offset) ==
  IF src.kind = t.bytes.kind /\ src.kind \in {"Uint8Array", "Uint16Array"}
  THEN LET r == ArraySet(t.bytes, src, 0)
       IN  [threw |-> r.threw, td |-> [t EXCEPT !.bytes = r.arr]]
  ELSE [threw |-> TRUE, td |-> t]

setRow(t, row, data) == setBytes(t, data, getRowIndex(t, row))

setPixelBytes(t, x, y, src) ==
  setBytes(t, src, JsAdd(getRowIndex(t, y), JsNum(x * t.bpp)))

\* Sets the pixel at (x, y) to the given rgba color
setPixelRgba(t, x, y, rgba) ==
  LET index == JsAdd(getRowIndex(t, y), JsNum(x * t.bpp))
      b0 == StoreAt(t.bytes, JsAdd(index, JsNum(0)), rgba.r)
      b1 == StoreAt(b0, JsAdd(index, JsNum(1)), rgba.g)
      b2 == StoreAt(b1, JsAdd(index, JsNum(2)), rgba.b)
      b3 == StoreAt(b2, JsAdd(index, JsNum(3)), rgba.a)
  IN  [threw |-> FALSE, td |-> [t EXCEPT !.bytes = b3]]

uploadChangesToGpu_AlwaysCreate(t, g, arr) ==
  [td |-> [t EXCEPT !.gpuTexture = [handle |-> Len(g.textures) + 1]],
   gl |-> WebGLUtils_createTexture(g, t.width, t.height, arr)]

\* uploadChangesToGpu(); arr is the array this.bytes refers to
uploadChangesToGpu(t, g, arr) ==
  IF t.gpuTexture = Null
  THEN [td |-> [t EXCEPT !.gpuTexture = [handle |-> Len(g.textures) + 1]],
        gl |-> WebGLUtils_createTexture(g, t.width, t.height, arr)]
  ELSE [td |-> t,
        gl |-> texImage2D(g, t.gpuTexture.handle, t.width, t.height, arr)]

(***************************************************************************)
(* UniformSetter and the WebGL2 context of the layer.  The context holds   *)
(* the texture objects, the texture bound to each of the two texture       *)
(* units, the program in use, the uniform values of the program, what the  *)
(* last draw call sampled, and how often the program and the vertex buffer *)
(* were deleted.                                                           *)
(***************************************************************************)
EmptyMap == [n \in {} |-> Null]

\* the uniforms the fragment shader declares and uses, with their types
UsedUniforms ==
  [u_tileTexture |-> "UNSIGNED_INT_SAMPLER_2D", u_hasFocusedPlayer |-> "FLOAT",
   u_focusedPlayerId |-> "INT", u_paletteTexture |-> "SAMPLER_2D",
   u_territoryAlpha |-> "FLOAT", u_borderAlpha |-> "FLOAT",
   u_focusedBorderColor |-> "FLOAT_VEC3", u_falloutColor |-> "FLOAT_VEC3",
   debug_draw_palette |-> "BOOL", debug_draw_tiles |-> "BOOL"]

\* the active uniforms of the linked program: debug_draw_cpu_percent is
\* declared and never accessed, which leaves it inactive
ActiveUniforms == UsedUniforms

\* whether a uniform of `type` takes the values of a gl.uniform* call `fn`
\* (otherwise the call is an INVALID_OPERATION that writes nothing)
Accepts(type, fn) ==
  CASE type = "FLOAT" -> fn \in {"uniform1f", "uniform1fv"}
    [] type = "FLOAT_VEC3" -> fn \in {"uniform3f", "uniform3fv"}
    [] type = "FLOAT_VEC4" -> fn \in {"uniform4f", "uniform4fv"}
    [] type = "INT_VEC3" -> fn \in {"uniform3i", "uniform3iv"}
    [] type \in {"INT", "SAMPLER_2D", "UNSIGNED_INT_SAMPLER_2D"} ->
         fn \in {"uniform1i", "uniform1iv"}
    [] type = "BOOL" ->
         fn \in {"uniform1i", "uniform1iv", "uniform1f", "uniform1fv",
                 "uniform1ui"}
    [] OTHER -> FALSE

\* canvas.getContext("webgl2")
NewWebGL2 ==
  [textures |-> <<>>, units |-> <<Null, Null>>, currentProgram |-> Null,
   active |-> EmptyMap, uniforms |-> EmptyMap, drawn |-> Null,
   programDeletes |-> 0, bufferDeletes |-> 0]

\* new UniformSetter(gl, program)
NewUniformSetter(program) ==
  [program |-> program, locationCache |-> EmptyMap,
   uniformInfoCache |-> EmptyMap]

\* gl.getUniformLocation(this.program, name): null for a name that is no
\* active uniform of the program
getUniformLocation(c, name) ==
  IF name \in DOMAIN c.active THEN [location |-> name] ELSE Null

\* WebGLUtils.getUniformInfoByName(gl, this.program, name)
getUniformInfoByName(c, name) ==
  IF name \in DOMAIN c.active THEN [type |-> c.active[name], name |-> name]
  ELSE Null

\* mutant: a location for every name
getLocation_AlwaysFound(c, us, name) == [location |-> name]

\* getLocation(name): the cached location, looked up when not cached yet
getLocation(c, us, name) ==
  IF name \in DOMAIN us.locationCache THEN us.locationCache[name]
  ELSE getUniformLocation(c, name)

\* getUniformInfo(name): the cached info, looked up when not cached yet
getUniformInfo(c, us, name) ==
  IF name \in DOMAIN us.uniformInfoCache THEN us.uniformInfoCache[name]
  ELSE getUniformInfoByName(c, name)

\* mutant: the check without the auto-fix
ensureCorrectProgramBound_NoRebind(c, us) == c

\* ensureCorrectProgramBound(): the context afterwards
ensureCorrectProgramBound(c, us) ==
  IF c.currentProgram # us.program
  THEN [c EXCEPT !.currentProgram = us.program]
  ELSE c

\* the forEach of set() over the entries of `uniforms`, with the context
\* `bound` as ensureCorrectProgramBound left it: [ctx, us, outs, program]
\* where outs maps the names that have a location to the outcome of their
\* setUniform and program is the program in use while they ran.  An upload
\* call writes the uniform when the location belongs to the program in use
\* and the call fits its type.
SetEach(bound, us, uniforms) ==
  LET located == {n \in DOMAIN uniforms : getLocation(bound, us, n) # Null}
      written(outs) == {n \in located :
                          /\ bound.currentProgram = us.program
                          /\ n \in DOMAIN bound.active
                          /\ outs[n].calls # <<>>
                          /\ Accepts(bound.active[n], outs[n].calls[1].fn)}
  IN  With([n \in located |->
              setUniform([webgl2 |-> TRUE,
                          currentProgram |-> bound.currentProgram],
                         getLocation(bound, us, n), uniforms[n],
                         getUniformInfo(bound, us, n))] @@ <<>>,
           LAMBDA outs :
             [ctx |-> [bound EXCEPT !.uniforms =
                         [n \in (DOMAIN bound.uniforms) \cup written(outs) |->
                            IF n \in written(outs) THEN outs[n].calls[1].args
                            ELSE bound.uniforms[n]]],
              us |-> [us EXCEPT
                        !.locationCache =
                           [n \in (DOMAIN us.locationCache)
                                    \cup DOMAIN uniforms |->
                              getLocation(bound, us, n)],
                        !.uniformInfoCache =
                           [n \in (DOMAIN us.uniformInfoCache)
                                    \cup located |->
                              getUniformInfo(bound, us, n)]],
              outs |-> outs,
              program |-> bound.currentProgram])

\* mutant: an error of one entry ends the loop, here before any entry
UniformSetter_set_AbortOnError(c, us, uniforms) ==
  LET bound == ensureCorrectProgramBound(c, us)
      fails(n) == /\ getLocation(bound, us, n) # Null
                  /\ setUniform([webgl2 |-> TRUE,
                                 currentProgram |-> bound.currentProgram],
                                getLocation(bound, us, n), uniforms[n],
                                getUniformInfo(bound, us, n)).raised
  IN  SetEach(bound, us,
              IF \E n \in DOMAIN uniforms : fails(n)
              THEN [n \in {m \in DOMAIN uniforms : fails(m)} |-> uniforms[n]]
              ELSE uniforms)

\* set(uniforms)
UniformSetter_set(c, us, uniforms) ==
  SetEach(ensureCorrectProgramBound(c, us), us, uniforms)

\* setOne(name, value)
UniformSetter_setOne(c, us, name, value) ==
  UniformSetter_set(c, us, [n \in {name} |-> value])

\* setInt(name, value)
UniformSetter_setInt(c, us, name, value) ==
  UniformSetter_set(c, us, [n \in {name} |-> value])

\* bindToTextureUnit(unit) of a TextureData
bindToTextureUnit(t, c, unit) ==
  [c EXCEPT !.units[unit + 1] = t.gpuTexture]

(***************************************************************************)
(* ColorPalette.  The game is the record [theme, playerCount]: the players *)
(* of the roster have the small IDs 1..playerCount.                        *)
(***************************************************************************)
Undefined == -1

NewColorPalette ==
  [uniforms |-> <<>>, needsGpuUpload |-> FALSE, previousTheme |-> Undefined,
   previousPlayerCount |-> Undefined, textureData |-> Null]

needsCpuUpdate_ThemeOnly(cp, game) == game.theme # cp.previousTheme

\* Dirty checking
needsCpuUpdate(cp, game) ==
  ~ (game.theme = cp.previousTheme /\
     game.playerCount = cp.previousPlayerCount)

\* the colour of palette row `row` for a player, as updateCpuData reads them
PlayerRowColor(theme, smallId, row) == ThemeColor(theme, smallId, row)

PaletteColumn_Transposed(theme, stride, bpp, smallId, row) ==
  LET c == PlayerRowColor(theme, smallId, row)
      o == smallId * stride + row * bpp
  IN  <<(<<o, c.r>>), (<<o + 1, c.g>>), (<<o + 2, c.b>>), (<<o + 3, c.a>>)>>

\* bytes[row * stride + x * bpp + 0..3] = rgba of one row of column x: the
\* four stores <<index, value>> in program order
PaletteColumn(theme, stride, bpp, smallId, row) ==
  LET c == PlayerRowColor(theme, smallId, row)
      o == row * stride + smallId * bpp
  IN  <<(<<o, c.r>>), (<<o + 1, c.g>>), (<<o + 2, c.b>>), (<<o + 3, c.a>>)>>

\* the stores of the six rows of column smallId, in program order
PaletteRows(theme, stride, bpp, smallId) ==
  [n \in 1..(4 * PALETTE_TEXTURE_HEIGHT) |->
     PaletteColumn(theme, stride, bpp, smallId, (n - 1) \div 4)[
       ((n - 1) % 4) + 1]]

\* for (smallId = from; smallId <= paletteMaxColor; smallId++): the stores
\* of the loop, in program order
PaletteLoop(theme, stride, bpp, from, paletteMaxColor) ==
  LET perColumn == 4 * PALETTE_TEXTURE_HEIGHT
      columns == Max(0, paletteMaxColor - from + 1)
  IN  [n \in 1..(columns * perColumn) |->
         PaletteRows(theme, stride, bpp, from + (n - 1) \div perColumn)[
           ((n - 1) % perColumn) + 1]]

\* the array after the stores of a sequence, made one after the other: every
\* index holds the value of the last store made to it
StoreAll(arr, stores) ==
  LET last(j) == CHOOSE n \in DOMAIN stores :
                   /\ stores[n][1] = j
                   /\ \A m \in (n + 1)..Len(stores) : stores[m][1] # j
      stored == {stores[n][1] : n \in DOMAIN stores} \cap 0..(arr.len - 1)
      value(j) == IF j \in stored
                   THEN ToElem(arr.kind, stores[last(j)][2])
                   ELSE arr.data[j]
      nz == {j \in stored \cup DOMAIN arr.data : value(j) # 0}
  IN  [arr EXCEPT !.data = [j \in nz |-> value(j)] @@ <<>>]

\* the uniforms updateCpuData sets: 255.0 / 255.0, 150.0 / 255.0 and the
\* two Colord objects of the theme
PaletteUniforms(theme) ==
  [u_borderAlpha |-> NumberValue(Over255(JsInt(255))),
   u_territoryAlpha |-> NumberValue(Over255(JsInt(150))),
   u_focusedBorderColor |-> ColordValue(FocusedBorderColor(theme)),
   u_falloutColor |-> ColordValue(FalloutColor(theme))]

\* Updates the palette image when the palette changes:
\* [recomputed, cp] where recomputed tells whether the body ran
updateCpuData(cp, game) ==
  IF cp.textureData = Null THEN [recomputed |-> FALSE, cp |-> cp]
  ELSE IF ~ needsCpuUpdate(cp, game) THEN [recomputed |-> FALSE, cp |-> cp]
  ELSE LET width == cp.textureData.width
           bpp == 4
           stride == width * bpp
           maxSmallId == game.playerCount
           paletteMaxColor == Min(width, maxSmallId)
           bytes == With(PaletteLoop(game.theme, stride, bpp, 1,
                                     paletteMaxColor),
                         LAMBDA stores : StoreAll(cp.textureData.bytes, stores))
       IN  [recomputed |-> TRUE,
            cp |-> [cp EXCEPT !.previousTheme = game.theme,
                              !.previousPlayerCount = game.playerCount,
                              !.textureData.bytes = bytes,
                              !.uniforms = PaletteUniforms(game.theme),
                              !.needsGpuUpload = TRUE]]

\* init(gl, game)
ColorPalette_init(game) ==
  updateCpuData(
    [NewColorPalette EXCEPT !.textureData =
       NewTextureData(MAX_UNIQUE_PLAYER_COLORS, PALETTE_TEXTURE_HEIGHT, 4,
                      "UNSIGNED_BYTE")],
    game).cp

\* uploadToGpu(gl): [uploaded, cp, gl]
ColorPalette_uploadToGpu(cp, g) ==
  IF ~ cp.needsGpuUpload \/ cp.textureData = Null
  THEN [uploaded |-> FALSE, cp |-> cp, gl |-> g]
  ELSE LET r == uploadChangesToGpu(cp.textureData, g, cp.textureData.bytes)
       IN  [uploaded |-> TRUE, cp |-> [cp EXCEPT !.textureData = r.td],
            gl |-> r.gl]

\* dispose(): [cp, gl]
ColorPalette_dispose(cp, g) ==
  IF cp.textureData = Null THEN [cp |-> cp, gl |-> g]
  ELSE LET r == TextureData_dispose(cp.textureData, g)
       IN  [cp |-> [cp EXCEPT !.textureData = Null], gl |-> r.gl]

(***************************************************************************)
(* WebGLTerritoryLayer.  The game the layer reads is the record [theme,    *)
(* playerCount, focused, ownerBuffer]: focused is the small ID of the      *)
(* focused player (0: none), ownerBuffer is the Uint16Array of tile words  *)
(* and updates counts the updates the game has made.                       *)
(***************************************************************************)
nodrawDragDuration == 200
refreshRate == 10

\* the fields of a layer after its constructor
NewLayer ==
  [gl |-> Null, program |-> Null, vertexBuffer |-> Null,
   needsRedraw |-> FALSE, tileTextureData |-> Null, colorPalette |-> Null,
   uniforms |-> [sampler |-> EmptyMap, ui |-> EmptyMap, debug |-> EmptyMap],
   uniformSetter |-> Null, alternativeView |-> FALSE, lastDragTime |-> 0,
   lastRefresh |-> 0]

\* the array this.bytes of the tile TextureData refers to: its own array, or
\* the view updateTileTextureData took of the owner buffer of the game
BytesOf(t, game) ==
  IF "viewOf" \in DOMAIN t.bytes THEN game.ownerBuffer ELSE t.bytes

\* createTileTexture(gl, width, height)
createTileTexture(width, height) ==
  NewTextureData(width, height, 2, "UNSIGNED_SHORT")

\* what the setup of the context may run into: nothing, getContext gives no
\* context, createShader gives no shader (createProgram returns false), or
\* createProgram throws (no program was linked)
SetupOutcomes == {"ok", "noContext", "noShader", "noProgram"}

\* the value false, which createProgram returns without its shaders
False == [false |-> TRUE]

\* createProgram(gl): [threw, program]
createProgram(setup) ==
  CASE setup = "noShader" -> [threw |-> FALSE, program |-> False]
    [] setup = "noProgram" -> [threw |-> TRUE, program |-> Null]
    [] OTHER -> [threw |-> FALSE, program |-> [program |-> 1]]

\* bindProgram(gl, program, vertexBuffer): [threw, uniformSetter];
\* gl.getAttribLocation is a TypeError for a program that is no WebGLProgram
bindProgram(program) ==
  IF program = False THEN [threw |-> TRUE, uniformSetter |-> Null]
  ELSE [threw |-> FALSE, uniformSetter |-> NewUniformSetter(program)]

\* mutant: the failures of createProgram go unnoticed
initWebGL_AnyProgram(l, game, width, height, setup) ==
  IF setup = "noContext"
  THEN [threw |-> FALSE, ok |-> FALSE, layer |-> l, ctx |-> Null]
  ELSE [threw |-> FALSE, ok |-> TRUE,
        layer |->
          [l EXCEPT
             !.gl = [context |-> "webgl2"],
             !.program = [program |-> 1],
             !.vertexBuffer = [buffer |-> 1],
             !.uniformSetter = NewUniformSetter([program |-> 1]),
             !.tileTextureData = createTileTexture(width, height),
             !.colorPalette = ColorPalette_init(game),
             !.uniforms.sampler =
                [u_paletteTexture |-> NumberValue(JsInt(0)),
                 u_tileTexture |-> NumberValue(JsInt(1))],
             !.uniforms.debug =
                [debug_draw_palette |-> [t |-> "boolean", b |-> TRUE],
                 debug_draw_tiles |-> [t |-> "boolean", b |-> FALSE],
                 debug_draw_cpu_percent |->
                   NumberValue(<<(3 * FloatOne) \div 4>>)]],
        ctx |-> [NewWebGL2 EXCEPT !.active = ActiveUniforms]]

\* initWebGL(): [threw, ok, layer, ctx], ok being the value returned
initWebGL(l, game, width, height, setup) ==
  IF setup = "noContext"
  THEN [threw |-> FALSE, ok |-> FALSE, layer |-> l, ctx |-> Null]
  ELSE IF createProgram(setup).threw
  THEN [threw |-> TRUE, ok |-> FALSE,
        layer |-> [l EXCEPT !.gl = [context |-> "webgl2"]],
        ctx |-> NewWebGL2]
  ELSE IF bindProgram(createProgram(setup).program).threw
  THEN [threw |-> TRUE, ok |-> FALSE,
        layer |-> [l EXCEPT !.gl = [context |-> "webgl2"],
                            !.program = createProgram(setup).program,
                            !.vertexBuffer = [buffer |-> 1]],
        ctx |-> NewWebGL2]
  ELSE [threw |-> FALSE, ok |-> TRUE,
        layer |->
          [l EXCEPT
             !.gl = [context |-> "webgl2"],
             !.program = createProgram(setup).program,
             !.vertexBuffer = [buffer |-> 1],
             !.uniformSetter =
                bindProgram(createProgram(setup).program).uniformSetter,
             !.tileTextureData = createTileTexture(width, height),
             !.colorPalette = ColorPalette_init(game),
             !.uniforms.sampler =
                [u_paletteTexture |-> NumberValue(JsInt(0)),
                 u_tileTexture |-> NumberValue(JsInt(1))],
             !.uniforms.debug =
                [debug_draw_palette |-> [t |-> "boolean", b |-> TRUE],
                 debug_draw_tiles |-> [t |-> "boolean", b |-> FALSE],
                 debug_draw_cpu_percent |->
                   NumberValue(<<(3 * FloatOne) \div 4>>)]],
        ctx |-> [NewWebGL2 EXCEPT !.active = ActiveUniforms]]

\* init(): [threw, layer, ctx]; the event subscription is the action
\* AlternateView
Layer_init(l, game, width, height, setup) ==
  With(initWebGL(l, game, width, height, setup),
       LAMBDA r : [threw |-> r.threw,
                   layer |-> IF r.ok THEN [r.layer EXCEPT !.needsRedraw = TRUE]
                             ELSE r.layer,
                   ctx |-> r.ctx])

\* mutant: the tile TextureData keeps the array of its constructor
updateTileTextureData_Keep(l) == l

\* updateTileTextureData()
updateTileTextureData(l) ==
  IF l.tileTextureData = Null THEN l
  ELSE [l EXCEPT !.tileTextureData.bytes = [viewOf |-> "ownerBuffer"]]

\* stageAllGpuData(): [recomputed, layer]
stageAllGpuData(l, game) ==
  With(IF l.colorPalette = Null THEN [recomputed |-> FALSE, cp |-> Null]
       ELSE updateCpuData(l.colorPalette, game),
       LAMBDA pal :
         [recomputed |-> pal.recomputed,
          layer |->
            [updateTileTextureData([l EXCEPT !.colorPalette = pal.cp])
               EXCEPT !.uniforms.ui =
                 [u_hasFocusedPlayer |->
                    NumberValue(JsInt(IF game.focused # 0 THEN 1 ELSE 0)),
                  u_focusedPlayerId |-> NumberValue(JsInt(game.focused))]]])

\* uploadAllDataToGPU(): [paletteUploaded, tileUploaded, layer, ctx]
uploadAllDataToGPU(l, c, game) ==
  IF l.gl = Null
  THEN [paletteUploaded |-> FALSE, tileUploaded |-> FALSE, layer |-> l,
        ctx |-> c]
  ELSE With(IF l.colorPalette = Null
            THEN [uploaded |-> FALSE, cp |-> Null, gl |-> c]
            ELSE ColorPalette_uploadToGpu(l.colorPalette, c),
            LAMBDA pal :
       With(IF l.tileTextureData = Null THEN [td |-> Null, gl |-> pal.gl]
            ELSE uploadChangesToGpu(l.tileTextureData, pal.gl,
                                    BytesOf(l.tileTextureData, game)),
            LAMBDA tile :
              [paletteUploaded |-> pal.uploaded,
               tileUploaded |-> l.tileTextureData # Null,
               layer |-> [l EXCEPT !.colorPalette = pal.cp,
                                   !.tileTextureData = tile.td],
               ctx |-> tile.gl]))

\* renderToCanvas(): [drew, layer, ctx]
renderToCanvas(l, c) ==
  IF l.gl = Null \/ l.program \in {Null, False} \/ l.uniformSetter = Null
     \/ l.colorPalette = Null
  THEN [drew |-> FALSE, layer |-> l, ctx |-> c]
  ELSE LET used == [c EXCEPT !.currentProgram = l.program]
           b0 == bindToTextureUnit(l.colorPalette.textureData, used,
                   GlInt(l.uniforms.sampler.u_paletteTexture.n))
           b1 == bindToTextureUnit(l.tileTextureData, b0,
                   GlInt(l.uniforms.sampler.u_tileTexture.n))
       IN  With(b1, LAMBDA bound :
           With(UniformSetter_set(bound, l.uniformSetter,
                                  l.colorPalette.uniforms), LAMBDA s1 :
           With(UniformSetter_set(s1.ctx, s1.us, l.uniforms.sampler),
                LAMBDA s2 :
           With(UniformSetter_set(s2.ctx, s2.us, l.uniforms.ui), LAMBDA s3 :
           With(UniformSetter_set(s3.ctx, s3.us, l.uniforms.debug),
                LAMBDA s4 :
             [drew |-> TRUE,
              layer |-> [l EXCEPT !.uniformSetter = s4.us],
              \* drawArrays: the draw samples the textures of the two units
              ctx |-> [s4.ctx EXCEPT !.drawn = [units |-> s4.ctx.units]]])))))

\* mutant: no refresh interval
refreshDue_NoRateLimit(l, now) == now > l.lastDragTime + nodrawDragDuration

\* the condition of renderLayer for a frame that stages, uploads and draws
refreshDue(l, now) ==
  /\ now > l.lastDragTime + nodrawDragDuration
  /\ now > l.lastRefresh + refreshRate

\* the handlers init() subscribes for a DragEvent at time `now`: none, the
\* subscription that sets lastDragTime is commented out
onDragEvent(l, now) == l

\* tick(): publishGameUpdates reads the updates of the game and keeps
\* nothing, paintHighlightLayer paints the highlight canvas
Layer_tick(l, game) == l

\* mutant: a refreshing frame draws before it stages and uploads
renderLayer_DrawFirst(l, c, game, now) ==
  IF l.alternativeView
  THEN [refreshed |-> FALSE, recomputed |-> FALSE, paletteUploaded |-> FALSE,
        tileUploaded |-> FALSE, drew |-> FALSE, blit |-> FALSE, layer |-> l,
        ctx |-> c]
  ELSE IF refreshDue(l, now)
  THEN With(renderToCanvas(l, c), LAMBDA drawn :
       With(stageAllGpuData(drawn.layer, game), LAMBDA staged :
       With(uploadAllDataToGPU(staged.layer, drawn.ctx, game), LAMBDA up :
         [refreshed |-> TRUE, recomputed |-> staged.recomputed,
          paletteUploaded |-> up.paletteUploaded,
          tileUploaded |-> up.tileUploaded, drew |-> drawn.drew,
          blit |-> TRUE,
          layer |-> [up.layer EXCEPT !.lastRefresh = now],
          ctx |-> up.ctx])))
  ELSE [refreshed |-> FALSE, recomputed |-> FALSE, paletteUploaded |-> FALSE,
        tileUploaded |-> FALSE, drew |-> FALSE, blit |-> TRUE, layer |-> l,
        ctx |-> c]

\* mutant: the alternate view skips the 2D draw only
renderLayer_RefreshInAlternateView(l, c, game, now) ==
  IF refreshDue(l, now)
  THEN With(stageAllGpuData(l, game), LAMBDA staged :
       With(uploadAllDataToGPU(staged.layer, c, game), LAMBDA up :
       With(renderToCanvas(up.layer, up.ctx), LAMBDA drawn :
         [refreshed |-> TRUE, recomputed |-> staged.recomputed,
          paletteUploaded |-> up.paletteUploaded,
          tileUploaded |-> up.tileUploaded, drew |-> drawn.drew,
          blit |-> ~ l.alternativeView,
          layer |-> [drawn.layer EXCEPT !.lastRefresh = now],
          ctx |-> drawn.ctx])))
  ELSE [refreshed |-> FALSE, recomputed |-> FALSE, paletteUploaded |-> FALSE,
        tileUploaded |-> FALSE, drew |-> FALSE, blit |-> ~ l.alternativeView,
        layer |-> l, ctx |-> c]

\* renderLayer(context) at time `now`:
\* [refreshed, recomputed, paletteUploaded, tileUploaded, drew, blit, layer,
\*  ctx]
renderLayer(l, c, game, now) ==
  IF l.alternativeView
  THEN [refreshed |-> FALSE, recomputed |-> FALSE, paletteUploaded |-> FALSE,
        tileUploaded |-> FALSE, drew |-> FALSE, blit |-> FALSE, layer |-> l,
        ctx |-> c]
  ELSE IF refreshDue(l, now)
  THEN With(stageAllGpuData(l, game), LAMBDA staged :
       With(uploadAllDataToGPU(staged.layer, c, game), LAMBDA up :
       With(renderToCanvas(up.layer, up.ctx), LAMBDA drawn :
         [refreshed |-> TRUE, recomputed |-> staged.recomputed,
          paletteUploaded |-> up.paletteUploaded,
          tileUploaded |-> up.tileUploaded, drew |-> drawn.drew,
          blit |-> TRUE,
          layer |-> [drawn.layer EXCEPT !.lastRefresh = now],
          ctx |-> drawn.ctx])))
  ELSE [refreshed |-> FALSE, recomputed |-> FALSE, paletteUploaded |-> FALSE,
        tileUploaded |-> FALSE, drew |-> FALSE, blit |-> TRUE, layer |-> l,
        ctx |-> c]

\* UniformSetter.dispose(): clearCache()
UniformSetter_dispose(us) ==
  [us EXCEPT !.locationCache = EmptyMap, !.uniformInfoCache = EmptyMap]

\* mutant: dispose() without its test of this.gl, keeping the handle of the
\* program
Layer_dispose_KeepProgram(l, c) ==
  LET c1 == IF l.vertexBuffer # Null
            THEN [c EXCEPT !.bufferDeletes = c.bufferDeletes + 1] ELSE c
      c2 == IF l.program \notin {Null, False}
            THEN [c1 EXCEPT !.programDeletes = c1.programDeletes + 1]
            ELSE c1
      pal == IF l.colorPalette = Null THEN [cp |-> Null, gl |-> c2]
             ELSE ColorPalette_dispose(l.colorPalette, c2)
      tile == IF l.tileTextureData = Null THEN [td |-> Null, gl |-> pal.gl]
              ELSE TextureData_dispose(l.tileTextureData, pal.gl)
  IN  [layer |-> [l EXCEPT !.vertexBuffer = Null,
                           !.colorPalette = Null,
                           !.tileTextureData = Null,
                           !.uniformSetter = Null, !.gl = Null],
       ctx |-> tile.gl]

\* dispose(): [layer, ctx]; if (this.program) skips the value false, which
\* the field then keeps
Layer_dispose(l, c) ==
  IF l.gl = Null THEN [layer |-> l, ctx |-> c]
  ELSE LET c1 == IF l.vertexBuffer # Null
                 THEN [c EXCEPT !.bufferDeletes = c.bufferDeletes + 1] ELSE c
           c2 == IF l.program \notin {Null, False}
                 THEN [c1 EXCEPT !.programDeletes = c1.programDeletes + 1]
                 ELSE c1
           pal == IF l.colorPalette = Null THEN [cp |-> Null, gl |-> c2]
                  ELSE ColorPalette_dispose(l.colorPalette, c2)
           tile == IF l.tileTextureData = Null THEN [td |-> Null, gl |-> pal.gl]
                   ELSE TextureData_dispose(l.tileTextureData, pal.gl)
       IN  [layer |-> [l EXCEPT !.vertexBuffer = Null,
                                !.program = IF l.program = False THEN False
                                            ELSE Null,
                                !.colorPalette = Null,
                                !.tileTextureData = Null,
                                !.uniformSetter = Null, !.gl = Null],
            ctx |-> tile.gl]

(***************************************************************************)
(* Fragment shader (FRAGMENT_SHADER_SOURCE)                                *)
(***************************************************************************)
UNOWNED_TERRITORY_ID == 0
OWNER_ID_MASK == 4095
FALLOUT_MASK == 8192
DEFENSE_BONUS_MASK == 16384

PLAYER_COLOR_TERRITORY == 0
PLAYER_COLOR_BORDER == 3
PLAYER_COLOR_DEFENSE_BONUS_BORDER_LIGHT == 4
PLAYER_COLOR_DEFENSE_BONUS_BORDER_DARK == 5

\* mutant: the owner mask one bit group too wide, (1u << 14) - 1u
DecodeTileData_WideMask(bits) ==
  [ownerId         |-> BitAnd(bits, 16383),
   isFallout       |-> BitAnd(bits, FALLOUT_MASK) # 0,
   hasDefenseBonus |-> BitAnd(bits, DEFENSE_BONUS_MASK) # 0]

\* Extract the territory bits into a struct
DecodeTileData(bits) ==
  [ownerId         |-> BitAnd(bits, OWNER_ID_MASK),
   isFallout       |-> BitAnd(bits, FALLOUT_MASK) # 0,
   hasDefenseBonus |-> BitAnd(bits, DEFENSE_BONUS_MASK) # 0]

\* whether texel <<x, y>> lies inside the texture
InTexture(tex, x, y) == x >= 0 /\ x < tex.width /\ y >= 0 /\ y < tex.height

\* texelFetch(u_tileTexture, xy, 0).r; `undef` is what the fetch yields when
\* xy lies outside the texture, where GLSL leaves the result undefined
TileTexelFetch(tex, x, y, undef) ==
  IF InTexture(tex, x, y) THEN Elem(tex.data, y * tex.width + x) ELSE undef

\* texelFetch(u_paletteTexture, xy, 0): an RGBA8 texel as four floats
PaletteTexelFetch(pal, x, y, undef) ==
  IF InTexture(pal, x, y)
  THEN LET o == (y * pal.width + x) * 4
       IN  <<Unorm(Elem(pal.data, o)), Unorm(Elem(pal.data, o + 1)),
             Unorm(Elem(pal.data, o + 2)), Unorm(Elem(pal.data, o + 3))>>
  ELSE undef

\* Fetch and decode the tile data for the current fragment
ThisTile(tex, xy) == DecodeTileData(TileTexelFetch(tex, xy[1], xy[2], 0))

\* the four neighbour offsets, in the order isBorder fetches them
NeighborOffsets == <<(<<-1, 0>>), (<<1, 0>>), (<<0, -1>>), (<<0, 1>>)>>

\* neighbors[i] of isBorder; undefT[i] is the result of an out-of-range fetch
NeighborOwner(tex, xy, i, undefT) ==
  BitAnd(TileTexelFetch(tex, xy[1] + NeighborOffsets[i][1],
                        xy[2] + NeighborOffsets[i][2], undefT[i]),
         OWNER_ID_MASK)

\* mutant: the neighbour words compared without the owner mask
isBorder_RawCompare(tex, xy, ownerId, undefT) ==
  ~ \A i \in 1..4 :
      TileTexelFetch(tex, xy[1] + NeighborOffsets[i][1],
                     xy[2] + NeighborOffsets[i][2], undefT[i]) = ownerId

\* Check if a pixel is a border by comparing with neighbors
isBorder(tex, xy, ownerId, undefT) ==
  ~ \A i \in 1..4 : NeighborOwner(tex, xy, i, undefT) = ownerId

\* Sample the player palette buffer
getPlayerColor(pal, uni, ownerId, row, undefP) ==
  LET paletteColor == PaletteTexelFetch(pal, ownerId, row, undefP)
      alpha == IF row >= PLAYER_COLOR_BORDER THEN uni.u_borderAlpha
               ELSE uni.u_territoryAlpha
  IN  <<paletteColor[1], paletteColor[2], paletteColor[3], alpha>>

calculateDefendedBorderColor(pal, uni, ownerId, xy, undefP) ==
  LET stipple == BitAnd(BitXor(xy[2], xy[1]), 1)
      paletteRow == IF stipple = 0 THEN PLAYER_COLOR_DEFENSE_BONUS_BORDER_LIGHT
                    ELSE PLAYER_COLOR_DEFENSE_BONUS_BORDER_DARK
  IN  getPlayerColor(pal, uni, ownerId, paletteRow, undefP)

\* mutant: the defense bonus tested ahead of the focus
calculateBorderColor_DefenseFirst(pal, uni, tileData, xy, undefP) ==
  IF tileData.hasDefenseBonus
  THEN calculateDefendedBorderColor(pal, uni, tileData.ownerId, xy, undefP)
  ELSE IF uni.u_hasFocusedPlayer > 0
          /\ tileData.ownerId = uni.u_focusedPlayerId
  THEN <<uni.u_focusedBorderColor[1], uni.u_focusedBorderColor[2],
         uni.u_focusedBorderColor[3], uni.u_territoryAlpha>>
  ELSE getPlayerColor(pal, uni, tileData.ownerId, PLAYER_COLOR_BORDER, undefP)

calculateBorderColor(pal, uni, tileData, xy, undefP) ==
  IF uni.u_hasFocusedPlayer > 0 /\ tileData.ownerId = uni.u_focusedPlayerId
  THEN <<uni.u_focusedBorderColor[1], uni.u_focusedBorderColor[2],
         uni.u_focusedBorderColor[3], uni.u_territoryAlpha>>
  ELSE IF tileData.hasDefenseBonus
  THEN calculateDefendedBorderColor(pal, uni, tileData.ownerId, xy, undefP)
  ELSE getPlayerColor(pal, uni, tileData.ownerId, PLAYER_COLOR_BORDER, undefP)

\* mix(inColor, debugColor, 0.5) on the checkerboard of 16-texel squares
DebugDrawTileData(tex, xy, inColor) ==
  LET stipple == BitAnd(BitXor(xy[2] \div 16, xy[1] \div 16), 1)
      tileData == ThisTile(tex, xy)
      debugColor == <<Unorm(tileData.ownerId),
                      IF tileData.isFallout THEN FloatOne ELSE 0,
                      IF tileData.hasDefenseBonus THEN FloatOne ELSE 0,
                      FloatOne>>
  IN  IF stipple = 0
      THEN [c \in 1..4 |-> (inColor[c] + debugColor[c]) \div 2]
      ELSE inColor

\* mutant: the unowned branch left out
territoryColor_NoUnowned(tex, pal, uni, xy, undefT, undefP) ==
  LET thisTile == ThisTile(tex, xy)
      result ==
        IF thisTile.isFallout
        THEN <<uni.u_falloutColor[1], uni.u_falloutColor[2],
               uni.u_falloutColor[3], uni.u_territoryAlpha>>
        ELSE IF isBorder(tex, xy, thisTile.ownerId, undefT)
        THEN calculateBorderColor(pal, uni, thisTile, xy, undefP)
        ELSE getPlayerColor(pal, uni, thisTile.ownerId,
                            PLAYER_COLOR_TERRITORY, undefP)
  IN  IF uni.debug_draw_tiles THEN DebugDrawTileData(tex, xy, result)
      ELSE result

\* mutant: the unowned test ahead of the fallout test
territoryColor_UnownedFirst(tex, pal, uni, xy, undefT, undefP) ==
  LET thisTile == ThisTile(tex, xy)
      result ==
        IF thisTile.ownerId = UNOWNED_TERRITORY_ID
        THEN <<0, 0, 0, 0>>
        ELSE IF thisTile.isFallout
        THEN <<uni.u_falloutColor[1], uni.u_falloutColor[2],
               uni.u_falloutColor[3], uni.u_territoryAlpha>>
        ELSE IF isBorder(tex, xy, thisTile.ownerId, undefT)
        THEN calculateBorderColor(pal, uni, thisTile, xy, undefP)
        ELSE getPlayerColor(pal, uni, thisTile.ownerId,
                            PLAYER_COLOR_TERRITORY, undefP)
  IN  IF uni.debug_draw_tiles THEN DebugDrawTileData(tex, xy, result)
      ELSE result

\* GPU based tile color shading
territoryColor(tex, pal, uni, xy, undefT, undefP) ==
  LET thisTile == ThisTile(tex, xy)
      result ==
        IF thisTile.isFallout
        THEN <<uni.u_falloutColor[1], uni.u_falloutColor[2],
               uni.u_falloutColor[3], uni.u_territoryAlpha>>
        ELSE IF thisTile.ownerId = UNOWNED_TERRITORY_ID
        THEN <<0, 0, 0, 0>>
        ELSE IF isBorder(tex, xy, thisTile.ownerId, undefT)
        THEN calculateBorderColor(pal, uni, thisTile, xy, undefP)
        ELSE getPlayerColor(pal, uni, thisTile.ownerId,
                            PLAYER_COLOR_TERRITORY, undefP)
  IN  IF uni.debug_draw_tiles THEN DebugDrawTileData(tex, xy, result)
      ELSE result

\* Debug visualization of the palette: one palette texel per 2x2 fragments
DebugDrawPalette(pal, xy, inColor, undefP) ==
  LET px == xy[1] \div 2
      py == xy[2] \div 2
  IN  IF px < 0 \/ py < 0 \/ px >= pal.width \/ py >= pal.height
      THEN inColor
      ELSE LET paletteColor == PaletteTexelFetch(pal, px, py, undefP)
           IN  <<paletteColor[1], paletteColor[2], paletteColor[3], FloatOne>>

\* the texels <<column, row>> of u_paletteTexture that main() fetches for a
\* fragment: the one of getPlayerColor, when territoryColor() reaches it, and
\* the one of DebugDrawPalette, when the overlay is on and in range
PaletteFetches(tex, pal, uni, xy, undefT) ==
  LET thisTile == ThisTile(tex, xy)
      stipple == BitAnd(BitXor(xy[2], xy[1]), 1)
      sampled ==
        IF thisTile.isFallout \/ thisTile.ownerId = UNOWNED_TERRITORY_ID
        THEN {}
        ELSE IF isBorder(tex, xy, thisTile.ownerId, undefT)
        THEN IF uni.u_hasFocusedPlayer > 0
                /\ thisTile.ownerId = uni.u_focusedPlayerId
             THEN {}
             ELSE IF thisTile.hasDefenseBonus
             THEN {<<thisTile.ownerId,
                     IF stipple = 0
                     THEN PLAYER_COLOR_DEFENSE_BONUS_BORDER_LIGHT
                     ELSE PLAYER_COLOR_DEFENSE_BONUS_BORDER_DARK>>}
             ELSE {<<thisTile.ownerId, PLAYER_COLOR_BORDER>>}
        ELSE {<<thisTile.ownerId, PLAYER_COLOR_TERRITORY>>}
      px == xy[1] \div 2
      py == xy[2] \div 2
      overlay ==
        IF uni.debug_draw_palette
           /\ ~ (px < 0 \/ py < 0 \/ px >= pal.width \/ py >= pal.height)
        THEN {<<px, py>>}
        ELSE {}
  IN  sampled \cup overlay

\* main(): fragColor, given the colour c that territoryColor() returned
FragmentMain(pal, uni, xy, c, undefP) ==
  IF uni.debug_draw_palette THEN DebugDrawPalette(pal, xy, c, undefP)
  ELSE c

(***************************************************************************)
(* Tile words: the encoding the game writes into the owner buffer, and the *)
(* decoding of the shader, applied to every triple.                        *)
(***************************************************************************)
\* ownerId | isFallout << 13 | hasDefenseBonus << 14
EncodeTileData(t) ==
  BitOr(t.ownerId,
        BitOr(BoolBit(t.isFallout) * FALLOUT_MASK,
              BoolBit(t.hasDefenseBonus) * DEFENSE_BONUS_MASK))

TileTriples ==
  [ownerId : 0..OWNER_ID_MASK, isFallout : BOOLEAN, hasDefenseBonus : BOOLEAN]

TileIdle == tileIn = NoValue /\ tileOut = NoValue

TileInit == tileIn \in TileTriples /\ tileOut = NoValue

\* the shader decodes the word the game encoded
DecodeTile ==
  /\ tileOut = NoValue
  /\ tileOut' = DecodeTileData(EncodeTileData(tileIn))
  /\ UNCHANGED <<tileIn, shaderVars, textureVars, uniformVars, layerVars,
                 setterVars, paletteVars>>

(***************************************************************************)
(* One fragment: the inputs are drawn in the initial state, the action     *)
(* runs main() for the fragment.                                           *)
(***************************************************************************)
TexW == 3
TexH == 3

\* the texel in the middle of the tile texture and its four neighbours
Centre == <<TexW \div 2, TexH \div 2>>
CrossTexels ==
  {Centre} \cup {<<Centre[1] + NeighborOffsets[i][1],
                   Centre[2] + NeighborOffsets[i][2]>> : i \in 1..4}

\* words of the middle tile: unowned or owner 1, with every flag combination
CentreWords ==
  {EncodeTileData([ownerId |-> o, isFallout |-> f, hasDefenseBonus |-> d]) :
     o \in {0, 1}, f \in BOOLEAN, d \in BOOLEAN}

\* words of its neighbours: the same owner, the same owner with both flags,
\* another owner
NeighborWords == {1, 1 + FALLOUT_MASK + DEFENSE_BONUS_MASK, 2}

\* a tile texture: free words on the cross, unowned corners
TileTextureOf(c, n) ==
  [width |-> TexW, height |-> TexH,
   data |-> LET word(x, y) ==
                  IF <<x, y>> = Centre THEN c
                  ELSE IF \E i \in 1..4 :
                            <<x, y>> = <<Centre[1] + NeighborOffsets[i][1],
                                         Centre[2] + NeighborOffsets[i][2]>>
                  THEN n[CHOOSE i \in 1..4 :
                            <<x, y>> = <<Centre[1] + NeighborOffsets[i][1],
                                         Centre[2] + NeighborOffsets[i][2]>>]
                  ELSE 0
                nz == {i \in 0..(TexW * TexH - 1) :
                         word(i % TexW, i \div TexW) # 0}
            IN  [kind |-> "Uint16Array", len |-> TexW * TexH,
                 data |-> [i \in nz |-> word(i % TexW, i \div TexW)]]]

\* the palette texture the layer uploads for theme 1 and two players
ShaderTheme == 1
ShaderPlayers == 2
ShaderPalette ==
  [width |-> MAX_UNIQUE_PLAYER_COLORS, height |-> PALETTE_TEXTURE_HEIGHT,
   data |-> ColorPalette_init(
              [theme |-> ShaderTheme, playerCount |-> ShaderPlayers]
            ).textureData.bytes]

\* the uniform values of the program for a focused player (0: none) and the
\* two debug switches
ShaderUniformsOf(focused, debugPalette, debugTiles) ==
  LET pu == PaletteUniforms(ShaderTheme)
      focusedColor == UploadedArgs(pu.u_focusedBorderColor, "FLOAT_VEC3")
      falloutColor == UploadedArgs(pu.u_falloutColor, "FLOAT_VEC3")
  IN  [u_hasFocusedPlayer |-> IF focused # 0 THEN FloatOne ELSE 0,
       u_focusedPlayerId |-> focused,
       u_territoryAlpha |->
         GlFloat(UploadedArgs(pu.u_territoryAlpha, "FLOAT")[1]),
       u_borderAlpha |-> GlFloat(UploadedArgs(pu.u_borderAlpha, "FLOAT")[1]),
       u_focusedBorderColor |->
         <<GlFloat(focusedColor[1]), GlFloat(focusedColor[2]),
           GlFloat(focusedColor[3])>>,
       u_falloutColor |->
         <<GlFloat(falloutColor[1]), GlFloat(falloutColor[2]),
           GlFloat(falloutColor[3])>>,
       debug_draw_palette |-> debugPalette,
       debug_draw_tiles |-> debugTiles]

ShaderIdle ==
  /\ u_tileTexture = NoValue
  /\ u_paletteTexture = NoValue
  /\ fragCoord = NoValue
  /\ shaderUniforms = NoValue
  /\ fragOut = NoValue

ShaderInit ==
  /\ u_tileTexture \in
       {TileTextureOf(c, n) : c \in CentreWords, n \in [1..4 -> NeighborWords]}
  /\ u_paletteTexture = ShaderPalette
  /\ fragCoord \in CrossTexels
  /\ shaderUniforms \in
       {ShaderUniformsOf(f, dp, dt) :
          f \in 0..ShaderPlayers, dp \in BOOLEAN, dt \in BOOLEAN}
  /\ fragOut = NoValue

\* what an out-of-range texelFetch of the tile texture may yield: zero or a
\* texel of the texture
UndefinedTileTexels(tex) ==
  {0} \cup {Elem(tex.data, i) : i \in 0..(tex.width * tex.height - 1)}

\* the same for the fetch of neighbour i of xy (one value when it is in range)
UndefinedTileFor(tex, xy, i) ==
  IF InTexture(tex, xy[1] + NeighborOffsets[i][1],
               xy[2] + NeighborOffsets[i][2])
  THEN {0} ELSE UndefinedTileTexels(tex)

\* what an out-of-range texelFetch of the palette may yield
UndefinedPaletteTexels == {<<0, 0, 0, 0>>, <<0, 0, 0, FloatOne>>}

\* the same for the fragment at xy, whose only unguarded palette fetch is at
\* column ownerId (one value when that column is in range)
UndefinedPaletteFor(pal, tex, xy) ==
  IF ThisTile(tex, xy).ownerId < pal.width THEN {<<0, 0, 0, 0>>}
  ELSE UndefinedPaletteTexels

\* the GPU runs main() for the fragment
Fragment ==
  /\ fragOut = NoValue
  /\ \E u1 \in UndefinedTileFor(u_tileTexture, fragCoord, 1),
        u2 \in UndefinedTileFor(u_tileTexture, fragCoord, 2),
        u3 \in UndefinedTileFor(u_tileTexture, fragCoord, 3),
        u4 \in UndefinedTileFor(u_tileTexture, fragCoord, 4),
        undefP \in UndefinedPaletteFor(u_paletteTexture, u_tileTexture,
                                       fragCoord) :
       LET undefT == <<u1, u2, u3, u4>>
           c == territoryColor(u_tileTexture, u_paletteTexture,
                               shaderUniforms, fragCoord, undefT, undefP)
       IN  fragOut' =
             [isBorder |->
                isBorder(u_tileTexture, fragCoord,
                         ThisTile(u_tileTexture, fragCoord).ownerId, undefT),
              territoryColor |-> c,
              fragColor |-> FragmentMain(u_paletteTexture, shaderUniforms,
                                         fragCoord, c, undefP)]
  /\ UNCHANGED <<u_tileTexture, u_paletteTexture, fragCoord, shaderUniforms>>
  /\ UNCHANGED <<tileVars, textureVars, uniformVars, layerVars, setterVars,
                 paletteVars>>

(***************************************************************************)
(* One TextureData of TdWidth x TdHeight RGBA8 pixels, under any sequence  *)
(* of calls of its public methods.                                         *)
(***************************************************************************)
TdWidth == 2
TdHeight == 2
TdBpp == 4
\* uploadChangesToGpu is called at most MaxUploads times
MaxUploads == 3

Patterns == {1, 2}

\* a source array of n elements of `kind`, all non-zero and all different
SourceArray(kind, n, p) ==
  [kind |-> kind, len |-> n, data |-> [i \in 0..(n - 1) |-> 16 * p + i + 1]]

RowSources ==
  {SourceArray("Uint8Array", TdBpp * TdWidth, p) : p \in Patterns}
    \cup {SourceArray("Uint16Array", TdBpp * TdWidth, 1)}
PixelSources ==
  {SourceArray("Uint8Array", TdBpp, 4), SourceArray("Uint16Array", TdBpp, 5)}
PixelColors == {ThemeColor(1, 1, 0)}
\* the first and the last pixel
PixelCoords == {<<0, 0>>, <<TdWidth - 1, TdHeight - 1>>}

RECURSIVE UploadsMade(_, _)
\* the image uploads made to the first n textures of the context
UploadsMade(g, n) ==
  IF n = 0 THEN 0 ELSE g.textures[n].uploads + UploadsMade(g, n - 1)

\* the calls leave the variables of the other specifications alone
OnlyTexture ==
  UNCHANGED <<tileVars, shaderVars, uniformVars, layerVars, setterVars,
              paletteVars>>

TextureIdle == td = NoValue /\ gl = NoValue /\ texCall = NoValue

TextureInit ==
  /\ td = NewTextureData(TdWidth, TdHeight, TdBpp, "UNSIGNED_BYTE")
  /\ gl = NewGl
  /\ texCall = [op |-> "new", row |-> 0, x |-> 0, y |-> 0, src |-> Null,
                threw |-> FALSE]

\* new TextureData(gl, TdWidth, TdHeight, TdBpp, RGBA, RGBA, UNSIGNED_BYTE)
\* when the last one was dropped
Construct ==
  /\ td = Null
  /\ td' = NewTextureData(TdWidth, TdHeight, TdBpp, "UNSIGNED_BYTE")
  /\ texCall' = [op |-> "new", row |-> 0, x |-> 0, y |-> 0, src |-> Null,
                 threw |-> FALSE]
  /\ UNCHANGED gl
  /\ OnlyTexture

SetRow ==
  /\ td # Null
  /\ \E row \in 0..(TdHeight - 1), src \in RowSources :
     LET r == setRow(td, row, src)
     IN /\ td' = r.td
        /\ texCall' = [op |-> "setRow", row |-> row, x |-> 0, y |-> row,
                       src |-> src, threw |-> r.threw]
        /\ UNCHANGED gl
        /\ OnlyTexture

SetPixelBytes ==
  /\ td # Null
  /\ \E xy \in PixelCoords, src \in PixelSources :
     LET x == xy[1]
         y == xy[2]
         r == setPixelBytes(td, x, y, src)
     IN /\ td' = r.td
        /\ texCall' = [op |-> "setPixelBytes", row |-> y, x |-> x, y |-> y,
                       src |-> src, threw |-> r.threw]
        /\ UNCHANGED gl
        /\ OnlyTexture

SetPixelRgba ==
  /\ td # Null
  /\ \E xy \in PixelCoords, c \in PixelColors :
     LET x == xy[1]
         y == xy[2]
         r == setPixelRgba(td, x, y, c)
     IN /\ td' = r.td
        /\ texCall' = [op |-> "setPixelRgba", row |-> y, x |-> x, y |-> y,
                       src |-> c, threw |-> r.threw]
        /\ UNCHANGED gl
        /\ OnlyTexture

UploadChanges ==
  /\ td # Null
  /\ UploadsMade(gl, Len(gl.textures)) < MaxUploads
  /\ LET r == uploadChangesToGpu(td, gl, td.bytes)
     IN  /\ td' = r.td
         /\ gl' = r.gl
         /\ texCall' = [op |-> "uploadChangesToGpu", row |-> 0, x |-> 0,
                        y |-> 0, src |-> Null, threw |-> FALSE]
  /\ OnlyTexture

Dispose ==
  /\ td # Null
  /\ LET r == TextureData_dispose(td, gl)
     IN  /\ td' = r.td
         /\ gl' = r.gl
         /\ texCall' = [op |-> "dispose", row |-> 0, x |-> 0, y |-> 0,
                        src |-> Null, threw |-> FALSE]
  /\ OnlyTexture

\* dispose() of the ColorPalette that owns the TextureData: the texture
\* data is disposed and dropped
PaletteDispose ==
  /\ td # Null
  /\ LET r == ColorPalette_dispose(
                [NewColorPalette EXCEPT !.textureData = td], gl)
     IN  /\ td' = r.cp.textureData
         /\ gl' = r.gl
         /\ texCall' = [op |-> "ColorPalette.dispose", row |-> 0, x |-> 0,
                        y |-> 0, src |-> Null, threw |-> FALSE]
  /\ OnlyTexture

(***************************************************************************)
(* One call of setUniform: the inputs are drawn in the initial state, the  *)
(* action runs one of the two implementations on them.                     *)
(***************************************************************************)
MaxArrayLen == 5

NumberArray(n) == [i \in 1..n |-> <<255 * i>>]
IntegerArray(n) == [i \in 1..n |-> JsInt(i)]

ColorObjects ==
  {[t |-> t, rgba |-> [r |-> JsInt(120), g |-> JsInt(250), b |-> JsInt(71),
                       a |-> a]] :
     t \in {"rgba", "Colord"}, a \in {NaN, JsInt(1), <<255>>, JsInt(255)}}

UniformValues ==
  {[t |-> "number", n |-> n] : n \in {JsInt(0), JsInt(1), <<765>>, <<-765>>}}
    \cup {[t |-> "boolean", b |-> b] : b \in BOOLEAN}
    \cup {[t |-> "array", v |-> NumberArray(n)] : n \in 1..MaxArrayLen}
    \cup {[t |-> "Float32Array", v |-> NumberArray(n)] :
            n \in (1..MaxArrayLen) \cup {9}}
    \cup {[t |-> "Int32Array", v |-> IntegerArray(n)] : n \in 1..MaxArrayLen}
    \cup ColorObjects
    \cup {[t |-> "object"], [t |-> "undefined"]}

UniformTypes ==
  {"FLOAT", "FLOAT_VEC2", "FLOAT_VEC3", "FLOAT_VEC4", "INT", "INT_VEC2",
   "INT_VEC3", "INT_VEC4", "BOOL", "BOOL_VEC2", "BOOL_VEC3", "BOOL_VEC4",
   "UNSIGNED_INT", "SAMPLER_2D", "SAMPLER_CUBE", "UNSIGNED_INT_SAMPLER_2D",
   "FLOAT_MAT2"}

\* the contexts: WebGL 1 or 2, with the program bound or none bound
GlContexts ==
  [webgl2 : BOOLEAN, currentProgram : {Null, [program |-> 1]}]

UniformIdle == uniIn = NoValue /\ uniOut = NoValue

\* a uniform of a WebGL2-only type exists in a WebGL2 context only
UniformInit ==
  /\ uniIn \in
       {in \in [g : GlContexts, location : {Null, [location |-> 1]},
                value : UniformValues,
                uniformInfo : {Null} \cup
                              {[type |-> ty, name |-> "u"] : ty \in UniformTypes}] :
          (in.uniformInfo # Null /\ in.uniformInfo.type \in WebGL2Types)
            => in.g.webgl2}
  /\ uniOut = NoValue

OnlyUniform ==
  UNCHANGED <<tileVars, shaderVars, textureVars, layerVars, setterVars,
              paletteVars>>

\* setUniform of UniformSetter.ts is called
CallSetUniform ==
  /\ uniOut = NoValue
  /\ uniOut' = [impl |-> "UniformSetter.ts",
                out |-> setUniform(uniIn.g, uniIn.location, uniIn.value,
                                   uniIn.uniformInfo)]
  /\ UNCHANGED uniIn
  /\ OnlyUniform

\* setUniform of part_000 is called
CallSetUniformPart000 ==
  /\ uniOut = NoValue
  /\ uniOut' = [impl |-> "part_000",
                out |-> setUniform_part000(uniIn.g, uniIn.location,
                                           uniIn.value, uniIn.uniformInfo)]
  /\ UNCHANGED uniIn
  /\ OnlyUniform

(***************************************************************************)
(* One layer over a game of MapWidth x MapHeight tiles: the game changes   *)
(* its theme, gains players, conquers tiles and focuses a player, the      *)
(* clock advances, and the renderer calls init, renderLayer and dispose.   *)
(***************************************************************************)
MapWidth == 2
MapHeight == 1
MaxPlayers == 2
MaxTileChanges == 1
MaxGameUpdates == 3

\* Date.now() when the layer is constructed, the steps of the clock and the
\* time the run covers
StartTime == 1000
ClockSteps == {refreshRate, refreshRate + 1}
MaxElapsed == 11

\* what the game, the clock and the calls on the layer leave alone
OnlyLayer ==
  UNCHANGED <<tileVars, shaderVars, textureVars, uniformVars, setterVars,
              paletteVars, dragged>>

LayerIdle ==
  /\ gameView = NoValue
  /\ clock = NoValue
  /\ layer = NoValue
  /\ ctx = NoValue
  /\ frame = NoValue
  /\ dragged = NoValue

LayerInit ==
  /\ gameView = [theme |-> 1, playerCount |-> 0, focused |-> 0, updates |-> 0,
             ownerBuffer |-> NewArray("Uint16Array", MapWidth * MapHeight)]
  /\ clock = StartTime
  /\ layer = NewLayer
  /\ ctx = Null
  /\ frame = [op |-> "new"]
  /\ dragged = 0

\* the user picks another theme
GameSetTheme ==
  /\ gameView.updates < MaxGameUpdates
  /\ \E t \in Themes \ {gameView.theme} :
       gameView' = [gameView EXCEPT !.theme = t,
                                    !.updates = gameView.updates + 1]
  /\ UNCHANGED <<clock, layer, ctx, frame>>
  /\ OnlyLayer

\* a player joins: the roster grows by the next small ID
GamePlayerJoins ==
  /\ gameView.updates < MaxGameUpdates
  /\ gameView.playerCount < MaxPlayers
  /\ gameView' = [gameView EXCEPT !.playerCount = gameView.playerCount + 1,
                                 !.updates = gameView.updates + 1]
  /\ UNCHANGED <<clock, layer, ctx, frame>>
  /\ OnlyLayer

\* the next unowned tile is conquered by a player of the roster
GameTileChange ==
  /\ gameView.updates < MaxGameUpdates
  /\ \E i \in 0..(Min(MapWidth * MapHeight, MaxTileChanges) - 1),
        p \in 1..gameView.playerCount :
       /\ Elem(gameView.ownerBuffer, i) = 0
       /\ \A j \in 0..(i - 1) : Elem(gameView.ownerBuffer, j) # 0
       /\ gameView' = [gameView EXCEPT
                          !.ownerBuffer = StoreElem(gameView.ownerBuffer, i, p),
                          !.updates = gameView.updates + 1]
  /\ UNCHANGED <<clock, layer, ctx, frame>>
  /\ OnlyLayer

\* the first player is focused
GameFocus ==
  /\ gameView.updates < MaxGameUpdates
  /\ gameView.focused = 0
  /\ gameView.playerCount >= 1
  /\ gameView' = [gameView EXCEPT !.focused = 1,
                                 !.updates = gameView.updates + 1]
  /\ UNCHANGED <<clock, layer, ctx, frame>>
  /\ OnlyLayer

ClockAdvance ==
  /\ \E d \in ClockSteps :
       /\ clock + d <= StartTime + MaxElapsed
       /\ clock' = clock + d
  /\ UNCHANGED <<gameView, layer, ctx, frame>>
  /\ OnlyLayer

\* init(), once
CallInit ==
  /\ frame.op = "new"
  /\ \E setup \in SetupOutcomes :
       \E r \in {Layer_init(layer, gameView, MapWidth, MapHeight, setup)} :
           /\ layer' = r.layer
           /\ ctx' = r.ctx
           /\ frame' = [op |-> "init", setup |-> setup, threw |-> r.threw]
  /\ UNCHANGED <<gameView, clock>>
  /\ OnlyLayer

\* the handler of AlternateViewEvent, subscribed by init()
AlternateView ==
  /\ frame.op \notin {"new"}
  /\ \E e \in BOOLEAN :
       /\ e # layer.alternativeView
       /\ layer' = [layer EXCEPT !.alternativeView = e]
  /\ UNCHANGED <<gameView, clock, ctx, frame>>
  /\ OnlyLayer

\* renderLayer(context)
RenderLayer ==
  /\ frame.op # "new"
  /\ \E r \in {renderLayer(layer, ctx, gameView, clock)} :
         /\ layer' = r.layer
         /\ ctx' = r.ctx
         /\ frame' = [op |-> "renderLayer", setup |-> frame.setup,
                      refreshed |-> r.refreshed,
                      recomputed |-> r.recomputed,
                      paletteUploaded |-> r.paletteUploaded,
                      tileUploaded |-> r.tileUploaded, drew |-> r.drew,
                      blit |-> r.blit]
  /\ UNCHANGED <<gameView, clock>>
  /\ OnlyLayer

\* tick()
CallTick ==
  /\ frame.op \notin {"new", "tick"}
  /\ layer' = Layer_tick(layer, gameView)
  /\ frame' = [op |-> "tick", setup |-> frame.setup]
  /\ UNCHANGED <<gameView, clock, ctx>>
  /\ OnlyLayer

\* the user drags the map: a DragEvent goes over the event bus
Drag ==
  /\ frame.op # "new"
  /\ dragged # clock
  /\ dragged' = clock
  /\ layer' = onDragEvent(layer, clock)
  /\ UNCHANGED <<gameView, clock, ctx, frame>>
  /\ UNCHANGED <<tileVars, shaderVars, textureVars, uniformVars, setterVars,
                 paletteVars>>

\* dispose()
CallDispose ==
  /\ frame.op # "new"
  /\ \E r \in {Layer_dispose(layer, ctx)} :
         /\ layer' = r.layer
         /\ ctx' = r.ctx
         /\ frame' = [op |-> "dispose", setup |-> frame.setup]
  /\ UNCHANGED <<gameView, clock>>
  /\ OnlyLayer

(***************************************************************************)
(* One UniformSetter for a program with three active uniforms, in a        *)
(* context where the caller may have another program in use, or none.      *)
(***************************************************************************)
SetterProgram == [program |-> 1]
OtherProgram == [program |-> 2]

SetterActive ==
  [u_float |-> "FLOAT", u_color |-> "FLOAT_VEC3", u_ivec |-> "INT_VEC3"]

\* per uniform of the program, a value that fits it
SetterFits ==
  [u_float |-> NumberValue(JsInt(1)),
   u_color |-> ColordValue(FalloutColor(1)),
   u_ivec |-> [t |-> "array", v |-> IntegerArray(3)]]

\* per uniform of the program, a value that fails: an unrecognised object,
\* an array of unsupported length, a scalar for a vector
SetterFails ==
  [u_float |-> [t |-> "object"],
   u_color |-> [t |-> "array", v |-> NumberArray(5)],
   u_ivec |-> NumberValue(JsInt(1))]

\* the values a caller hands over per name; u_missing is no uniform of the
\* program
SetterEntries ==
  [n \in DOMAIN SetterActive |-> {SetterFits[n], SetterFails[n]}]
    @@ [u_missing |-> {NumberValue(JsInt(1))}]

\* the mappings a caller hands to set(), of two entries and more
SetterMaps ==
  UNION {{m \in [names -> UNION {SetterEntries[n] : n \in names}] :
            \A n \in names : m[n] \in SetterEntries[n]} :
           names \in {ns \in SUBSET DOMAIN SetterEntries :
                       Cardinality(ns) >= 2}}

OnlySetter ==
  UNCHANGED <<tileVars, shaderVars, textureVars, uniformVars, layerVars,
              paletteVars>>

SetterIdle == setter = NoValue /\ setterGl = NoValue /\ setCall = NoValue

SetterInit ==
  /\ setter = NewUniformSetter(SetterProgram)
  /\ setterGl \in {[NewWebGL2 EXCEPT !.active = SetterActive,
                                      !.currentProgram = p] :
                     p \in {Null, SetterProgram, OtherProgram}}
  /\ setCall = [op |-> "new"]

\* the caller puts a program in use, or none
UseProgram ==
  /\ \E p \in {Null, SetterProgram, OtherProgram} :
       /\ p # setterGl.currentProgram
       /\ setterGl' = [setterGl EXCEPT !.currentProgram = p]
  /\ UNCHANGED <<setter, setCall>>
  /\ OnlySetter

\* what a call of the setter leaves behind: r is the result of the call
AfterSetterCall(op, uniforms, r) ==
  /\ setter' = r.us
  /\ setterGl' = r.ctx
  /\ setCall' = [op |-> op, uniforms |-> uniforms, outs |-> r.outs,
                 program |-> r.program,
                 again |-> DOMAIN uniforms \subseteq DOMAIN setter.locationCache,
                 started |-> setterGl.currentProgram]

\* set(uniforms)
CallSet ==
  /\ \E m \in SetterMaps :
       \E r \in {UniformSetter_set(setterGl, setter, m)} :
         AfterSetterCall("set", m, r)
  /\ OnlySetter

\* setOne(name, value)
CallSetOne ==
  /\ \E name \in DOMAIN SetterEntries :
       \E value \in SetterEntries[name] :
         \E r \in {UniformSetter_setOne(setterGl, setter, name, value)} :
           AfterSetterCall("setOne", [n \in {name} |-> value], r)
  /\ OnlySetter

\* setInt(name, value)
CallSetInt ==
  /\ \E name \in DOMAIN SetterEntries :
       \E value \in {v \in SetterEntries[name] : v.t = "number"} :
         \E r \in {UniformSetter_setInt(setterGl, setter, name, value)} :
           AfterSetterCall("setInt", [n \in {name} |-> value], r)
  /\ OnlySetter

\* clearCache()
CallClearCache ==
  /\ setter.locationCache # EmptyMap
  /\ setter' = UniformSetter_dispose(setter)
  /\ setCall' = [op |-> "clearCache"]
  /\ UNCHANGED setterGl
  /\ OnlySetter

(***************************************************************************)
(* One ColorPalette whose texture is PaletteWidth columns wide (the width   *)
(* of the program is MAX_UNIQUE_PLAYER_COLORS), read by a game whose        *)
(* players have the small IDs 1..playerCount, up to MaxSmallId.             *)
(***************************************************************************)
PaletteWidth == 3
MaxSmallId == 4

OnlyPalette ==
  UNCHANGED <<tileVars, shaderVars, textureVars, uniformVars, layerVars,
              setterVars>>

PaletteIdle ==
  palette = NoValue /\ paletteGame = NoValue /\ paletteCall = NoValue

\* init(gl, game) up to its call of updateCpuData
PaletteInit ==
  /\ palette = [NewColorPalette EXCEPT !.textureData =
                  NewTextureData(PaletteWidth, PALETTE_TEXTURE_HEIGHT, 4,
                                 "UNSIGNED_BYTE")]
  /\ paletteGame \in [theme : Themes, playerCount : 0..MaxSmallId]
  /\ paletteCall = [op |-> "new", recomputed |-> FALSE, stores |-> <<>>]

\* the game changes its theme
PaletteSetTheme ==
  /\ \E t \in Themes \ {paletteGame.theme} :
       paletteGame' = [paletteGame EXCEPT !.theme = t]
  /\ UNCHANGED <<palette, paletteCall>>
  /\ OnlyPalette

\* a player joins: the roster grows by the next small ID
PalettePlayerJoins ==
  /\ paletteGame.playerCount < MaxSmallId
  /\ paletteGame' = [paletteGame EXCEPT !.playerCount = @ + 1]
  /\ UNCHANGED <<palette, paletteCall>>
  /\ OnlyPalette

\* updateCpuData()
CallUpdateCpuData ==
  /\ \E r \in {updateCpuData(palette, paletteGame)} :
       /\ palette' = r.cp
       /\ paletteCall' =
            [op |-> "updateCpuData", recomputed |-> r.recomputed,
             stores |->
               IF r.recomputed
               THEN PaletteLoop(paletteGame.theme, palette.textureData.stride,
                                4, 1,
                                Min(palette.textureData.width,
                                    paletteGame.playerCount))
               ELSE <<>>]
  /\ UNCHANGED paletteGame
  /\ OnlyPalette

(***************************************************************************)
(* Specifications                                                          *)
(***************************************************************************)
\* tile word round trip
InitTile ==
  TileInit /\ ShaderIdle /\ TextureIdle /\ UniformIdle /\ LayerIdle
  /\ SetterIdle /\ PaletteIdle
NextTile == DecodeTile
SpecTile == InitTile /\ [][NextTile]_vars

\* one fragment of the shader
InitShader ==
  ShaderInit /\ TileIdle /\ TextureIdle /\ UniformIdle /\ LayerIdle
  /\ SetterIdle /\ PaletteIdle
NextShader == Fragment
SpecShader == InitShader /\ [][NextShader]_vars

\* one TextureData under any sequence of calls
InitTexture ==
  TextureInit /\ TileIdle /\ ShaderIdle /\ UniformIdle /\ LayerIdle
  /\ SetterIdle /\ PaletteIdle
NextTexture ==
  \/ Construct
  \/ SetRow
  \/ SetPixelBytes
  \/ SetPixelRgba
  \/ UploadChanges
  \/ Dispose
  \/ PaletteDispose
SpecTexture == InitTexture /\ [][NextTexture]_vars

\* one call of setUniform
InitUniform ==
  UniformInit /\ TileIdle /\ ShaderIdle /\ TextureIdle /\ LayerIdle
  /\ SetterIdle /\ PaletteIdle
NextUniform == CallSetUniform \/ CallSetUniformPart000
SpecUniform == InitUniform /\ [][NextUniform]_vars

\* one layer and its game
InitLayer ==
  LayerInit /\ TileIdle /\ ShaderIdle /\ TextureIdle /\ UniformIdle
  /\ SetterIdle /\ PaletteIdle
NextLayer ==
  \/ GameSetTheme
  \/ GamePlayerJoins
  \/ GameTileChange
  \/ GameFocus
  \/ ClockAdvance
  \/ CallInit
  \/ AlternateView
  \/ RenderLayer
  \/ CallTick
  \/ CallDispose
SpecLayer == InitLayer /\ [][NextLayer]_vars

\* the layer of a game at rest, with the user dragging the map
NextDrag ==
  \/ ClockAdvance
  \/ CallInit
  \/ AlternateView
  \/ RenderLayer
  \/ Drag
  \/ CallDispose
SpecDrag == InitLayer /\ [][NextDrag]_vars

\* one UniformSetter under any sequence of calls
InitSetter ==
  SetterInit /\ TileIdle /\ ShaderIdle /\ TextureIdle /\ UniformIdle
  /\ LayerIdle /\ PaletteIdle
NextSetter ==
  \/ UseProgram
  \/ CallSet
  \/ CallSetOne
  \/ CallSetInt
  \/ CallClearCache
SpecSetter == InitSetter /\ [][NextSetter]_vars

\* one ColorPalette under the updates of its game
InitPalette ==
  PaletteInit /\ TileIdle /\ ShaderIdle /\ TextureIdle /\ UniformIdle
  /\ LayerIdle /\ SetterIdle
NextPalette ==
  \/ PaletteSetTheme
  \/ PalettePlayerJoins
  \/ CallUpdateCpuData
SpecPalette == InitPalette /\ [][NextPalette]_vars

(***************************************************************************)
(* Claims                                                                  *)
(***************************************************************************)
Transparent == <<0, 0, 0, 0>>
ShadedTile == ThisTile(u_tileTexture, fragCoord)
FalloutPaint ==
  <<shaderUniforms.u_falloutColor[1], shaderUniforms.u_falloutColor[2],
    shaderUniforms.u_falloutColor[3], shaderUniforms.u_territoryAlpha>>

\* C1 as stated: with the debug overlays off, a tile word whose ownerId is 0
\* is shaded fully transparent, whatever its fallout and defense bits are.
C1_UnownedAlwaysTransparent ==
  (/\ fragOut # NoValue
   /\ ~ shaderUniforms.debug_draw_tiles
   /\ ShadedTile.ownerId = UNOWNED_TERRITORY_ID)
  => fragOut.territoryColor = Transparent

\* C1 (amended): with the debug overlays off, a tile word whose ownerId is 0
\* and whose fallout bit is clear is shaded fully transparent, for both
\* values of the defense bit; with the fallout bit set it is painted the
\* fallout colour with the territory alpha.  Without the palette overlay the
\* fragment colour is that colour.
C1_UnownedTransparentUnlessFallout ==
  (/\ fragOut # NoValue
   /\ ~ shaderUniforms.debug_draw_tiles
   /\ ShadedTile.ownerId = UNOWNED_TERRITORY_ID)
  => /\ ~ ShadedTile.isFallout => fragOut.territoryColor = Transparent
     /\ ShadedTile.isFallout => fragOut.territoryColor = FalloutPaint
     /\ ~ shaderUniforms.debug_draw_palette
          => fragOut.fragColor = fragOut.territoryColor

\* C1 witness: an unowned tile with the defense bit set and no fallout was
\* shaded transparent
C1_Witness ==
  /\ fragOut # NoValue
  /\ ~ shaderUniforms.debug_draw_tiles
  /\ ~ shaderUniforms.debug_draw_palette
  /\ ShadedTile.ownerId = UNOWNED_TERRITORY_ID
  /\ ShadedTile.hasDefenseBonus
  /\ ~ ShadedTile.isFallout
  /\ fragOut.fragColor = Transparent

\* the neighbours of the shaded texel that lie inside the tile texture
NeighborsInTexture ==
  {i \in 1..4 : InTexture(u_tileTexture, fragCoord[1] + NeighborOffsets[i][1],
                          fragCoord[2] + NeighborOffsets[i][2])}
\* the tile of neighbour i
NeighborTile(i) ==
  DecodeTileData(Elem(u_tileTexture.data,
    (fragCoord[2] + NeighborOffsets[i][2]) * u_tileTexture.width
      + fragCoord[1] + NeighborOffsets[i][1]))

\* C2: a tile with ownerId o one of whose neighbours has another ownerId is
\* a border; a tile whose four neighbours all have ownerId o is not a border,
\* whatever the fallout and defense bits of the neighbours are (so for a tile
\* with four neighbours: a border if and only if one of them differs).
C2_BorderIffNeighborDiffers ==
  fragOut # NoValue =>
    /\ (\E i \in NeighborsInTexture :
          NeighborTile(i).ownerId # ShadedTile.ownerId) => fragOut.isBorder
    /\ (/\ NeighborsInTexture = 1..4
        /\ \A i \in 1..4 : NeighborTile(i).ownerId = ShadedTile.ownerId)
       => ~ fragOut.isBorder

\* C2 witness: a tile whose four neighbours have its owner, some of them
\* with other flag bits, was classified as no border
C2_Witness ==
  /\ fragOut # NoValue
  /\ NeighborsInTexture = 1..4
  /\ \A i \in 1..4 : NeighborTile(i).ownerId = ShadedTile.ownerId
  /\ \E i \in 1..4 : NeighborTile(i).isFallout /\ ~ ShadedTile.isFallout
  /\ \E i \in 1..4 : ~ NeighborTile(i).hasDefenseBonus
  /\ ShadedTile.ownerId # UNOWNED_TERRITORY_ID
  /\ ~ fragOut.isBorder

\* C3: decoding the word built from (ownerId, isFallout, hasDefenseBonus),
\* ownerId in 0..4095, gives back the same triple.
C3_TileRoundTrip == tileOut # NoValue => tileOut = tileIn

\* C3 witness: the largest owner with both flags set was decoded
C3_Witness ==
  /\ tileOut # NoValue
  /\ tileIn.ownerId = OWNER_ID_MASK
  /\ tileIn.isFallout
  /\ tileIn.hasDefenseBonus
  /\ tileOut.ownerId = OWNER_ID_MASK


\* the uniform values the program of a context holds, as the shader reads
\* them
ProgramUniforms(c) ==
  LET u == c.uniforms
  IN  [u_hasFocusedPlayer |-> GlFloat(u.u_hasFocusedPlayer[1]),
       u_focusedPlayerId |-> GlInt(u.u_focusedPlayerId[1]),
       u_territoryAlpha |-> GlFloat(u.u_territoryAlpha[1]),
       u_borderAlpha |-> GlFloat(u.u_borderAlpha[1]),
       u_focusedBorderColor |->
         <<GlFloat(u.u_focusedBorderColor[1]),
           GlFloat(u.u_focusedBorderColor[2]),
           GlFloat(u.u_focusedBorderColor[3])>>,
       u_falloutColor |->
         <<GlFloat(u.u_falloutColor[1]), GlFloat(u.u_falloutColor[2]),
           GlFloat(u.u_falloutColor[3])>>,
       debug_draw_palette |-> GlInt(u.debug_draw_palette[1]) # 0,
       debug_draw_tiles |-> GlInt(u.debug_draw_tiles[1]) # 0]

\* a step of renderLayer that refreshed: it staged, uploaded and drew
RefreshedFrame == RenderLayer /\ frame'.refreshed

\* C4: after updateCpuData recomputed, for every ownerId that is the small ID
\* of a player the palette buffer holds at column ownerId, in rows 0..5, the
\* six colours the theme of that update gave for the player, and
\* getPlayerColor(ownerId, row) of the shader reads that column and row of the
\* uploaded palette.
C4_PaletteColumnHoldsPlayerColors ==
  layer.colorPalette # Null =>
    LET cp == layer.colorPalette
        t == cp.textureData
    IN  \A ownerId \in 1..cp.previousPlayerCount,
           row \in 0..(PALETTE_TEXTURE_HEIGHT - 1) :
          LET c == ThemeColor(cp.previousTheme, ownerId, row)
              o == row * t.stride + ownerId * t.bpp
          IN  /\ <<Elem(t.bytes, o), Elem(t.bytes, o + 1),
                   Elem(t.bytes, o + 2), Elem(t.bytes, o + 3)>>
                   = <<c.r, c.g, c.b, c.a>>
              /\ t.gpuTexture # Null =>
                   LET rgba == getPlayerColor(
                                 ctx.textures[t.gpuTexture.handle],
                                 ProgramUniforms(ctx), ownerId, row,
                                 <<0, 0, 0, 0>>)
                   IN  <<rgba[1], rgba[2], rgba[3]>>
                         = <<Unorm(c.r), Unorm(c.g), Unorm(c.b)>>

\* C4 witness: a frame recomputed the palette for two players under the second
\* theme and uploaded it
C4_Witness ==
  /\ frame.op = "renderLayer"
  /\ frame.recomputed
  /\ frame.paletteUploaded
  /\ layer.colorPalette.previousPlayerCount = 2
  /\ layer.colorPalette.previousTheme = 2
  /\ layer.colorPalette.textureData.gpuTexture # Null

\* C5 as stated: a JavaScript array of three numbers handed to setUniform for
\* a located uniform of a four-component vector type (with a program bound)
\* raises an error and issues no upload call.
C5_ShortArrayRefused ==
  (/\ uniOut # NoValue
   /\ uniIn.g.currentProgram # Null
   /\ uniIn.location # Null
   /\ uniIn.value.t = "array"
   /\ Len(uniIn.value.v) = 3
   /\ uniIn.uniformInfo # Null
   /\ uniIn.uniformInfo.type \in {"FLOAT_VEC4", "INT_VEC4", "BOOL_VEC4"})
  => uniOut.out.raised /\ uniOut.out.calls = <<>>

\* C6: updateCpuData recomputes exactly when the current theme or the current
\* player count differs from the theme and count recorded at the previous
\* recomputation; a call with both unchanged writes no palette byte, changes
\* no uniform and leaves the upload flag alone, and a call after a change
\* records the new theme and count.
C6_RecomputeIffThemeOrCountChanged ==
  [][(RefreshedFrame /\ layer.colorPalette # Null) =>
       LET cp == layer.colorPalette
           after == layer'.colorPalette
           changed == \/ gameView.theme # cp.previousTheme
                      \/ gameView.playerCount # cp.previousPlayerCount
       IN  /\ frame'.recomputed <=> changed
           /\ ~ changed =>
                /\ after.textureData.bytes = cp.textureData.bytes
                /\ after.uniforms = cp.uniforms
                /\ after.needsGpuUpload = cp.needsGpuUpload
                /\ after.previousTheme = cp.previousTheme
                /\ after.previousPlayerCount = cp.previousPlayerCount
           /\ changed =>
                /\ after.previousTheme = gameView.theme
                /\ after.previousPlayerCount = gameView.playerCount
                /\ after.needsGpuUpload
                /\ after.uniforms = PaletteUniforms(gameView.theme)]_vars

\* C6 witness: after a recomputation for one player or more, a second
\* refreshed frame found theme and count unchanged and did not recompute
C6_Witness ==
  /\ frame.op = "renderLayer"
  /\ frame.refreshed
  /\ ~ frame.recomputed
  /\ layer.colorPalette # Null
  /\ layer.colorPalette.previousPlayerCount >= 1
  /\ layer.colorPalette.previousTheme = gameView.theme
  /\ layer.colorPalette.previousPlayerCount = gameView.playerCount

\* C7 as stated: a refreshed frame that did not recompute the palette since
\* its last upload uploads no palette texture, and a refreshed frame whose
\* tile data equals what the tile texture already holds uploads no tile
\* texture.
C7_UploadOnlyWhenDirty ==
  [][RefreshedFrame =>
       /\ (/\ layer.colorPalette # Null
           /\ layer.colorPalette.textureData.gpuTexture # Null
           /\ ~ frame'.recomputed) =>
            LET h == layer.colorPalette.textureData.gpuTexture.handle
            IN  ctx'.textures[h].uploads = ctx.textures[h].uploads
       /\ (/\ layer.tileTextureData # Null
           /\ layer.tileTextureData.gpuTexture # Null
           /\ ctx.textures[layer.tileTextureData.gpuTexture.handle].data
                = gameView.ownerBuffer) =>
            LET h == layer.tileTextureData.gpuTexture.handle
            IN  ctx'.textures[h].uploads = ctx.textures[h].uploads]_vars

\* the texture objects of the context other than h are the same before and
\* after the step
OtherTexturesKept(h) ==
  \A k \in DOMAIN gl.textures :
    k # h => k \in DOMAIN gl'.textures /\ gl'.textures[k] = gl.textures[k]

\* TypedArray.prototype.byteLength
ByteLength(arr) ==
  arr.len * (IF arr.kind = "Uint16Array" THEN 2 ELSE 1)

\* C11 as stated: the buffer the TextureData constructor allocated has
\* width * height * bpp bytes, for the palette (unsigned bytes, bpp 4) and for
\* the tile texture (unsigned shorts, bpp 2).
C11_BufferHasTextureByteSize ==
  /\ layer.colorPalette # Null =>
       LET t == layer.colorPalette.textureData
       IN  ByteLength(t.bytes) = t.width * t.height * t.bpp
  /\ (layer.tileTextureData # Null
      /\ "viewOf" \notin DOMAIN layer.tileTextureData.bytes) =>
       LET t == layer.tileTextureData
       IN  ByteLength(t.bytes) = t.width * t.height * t.bpp

\* C8: the first uploadChangesToGpu after construction or after a dispose
\* allocates exactly one GPU texture holding the buffer; every later call
\* keeps the handle, allocates nothing and replaces the full contents of that
\* texture by the buffer.
C8_UploadReusesTexture ==
  [][texCall'.op = "uploadChangesToGpu" =>
       IF td.gpuTexture = Null
       THEN /\ Len(gl'.textures) = Len(gl.textures) + 1
            /\ td'.gpuTexture = [handle |-> Len(gl'.textures)]
            /\ gl'.textures[Len(gl'.textures)] =
                 [width |-> td.width, height |-> td.height, data |-> td.bytes,
                  uploads |-> 1, deletes |-> 0]
            /\ OtherTexturesKept(0)
       ELSE /\ td'.gpuTexture = td.gpuTexture
            /\ Len(gl'.textures) = Len(gl.textures)
            /\ gl'.textures[td.gpuTexture.handle].data = td.bytes
            /\ gl'.textures[td.gpuTexture.handle].deletes = 0
            /\ OtherTexturesKept(td.gpuTexture.handle)]_vars

\* C8 witness: after a dispose, a second texture was allocated and then
\* uploaded to again with changed contents, and there is no third texture
C8_Witness ==
  /\ texCall.op = "uploadChangesToGpu"
  /\ Len(gl.textures) = 2
  /\ td.gpuTexture = [handle |-> 2]
  /\ gl.textures[2].uploads = 2
  /\ gl.textures[2].data = td.bytes
  /\ td.bytes.data # <<>>
  /\ gl.textures[1].deletes = 1

\* C9: every texture is deleted at most once; after TextureData.dispose the
\* handle is null, and after ColorPalette.dispose the palette holds no
\* texture data; a dispose deletes the texture of the handle and no other,
\* and deletes nothing when the handle is null.
C9_DisposeOnce ==
  /\ [](\A h \in DOMAIN gl.textures : gl.textures[h].deletes <= 1)
  /\ [](texCall.op = "dispose" => td.gpuTexture = Null)
  /\ [](texCall.op = "ColorPalette.dispose" => td = Null)
  /\ [][texCall'.op \in {"dispose", "ColorPalette.dispose"} =>
          IF td.gpuTexture = Null THEN gl' = gl
          ELSE /\ Len(gl'.textures) = Len(gl.textures)
               /\ gl'.textures[td.gpuTexture.handle].deletes = 1
               /\ OtherTexturesKept(td.gpuTexture.handle)]_vars

\* C9 witness: two textures were allocated and each was deleted once, the
\* second by a dispose made while the first was long gone, and the handle is
\* null
C9_Witness ==
  /\ texCall.op = "dispose"
  /\ td.gpuTexture = Null
  /\ Len(gl.textures) = 2
  /\ gl.textures[1].deletes = 1
  /\ gl.textures[2].deletes = 1

\* the buffer after `values` (a sequence) were written from offset `at` on
WrittenAt(arr, at, values, j) ==
  IF j >= at /\ j < at + Len(values) THEN values[j - at + 1] % 256
  ELSE Elem(arr, j)

\* the values a call hands over, as a sequence
CallValues(call) ==
  IF call.op = "setPixelRgba"
  THEN <<call.src.r, call.src.g, call.src.b, call.src.a>>
  ELSE [n \in 1..call.src.len |-> Elem(call.src, n - 1)]

\* C10 as stated: a setRow that does not throw writes its data from offset
\* row * stride on, a setPixelBytes / setPixelRgba that does not throw writes
\* from offset y * stride + x * bpp on, and every other byte is unchanged.
C10_RowMajorWrites ==
  [][(/\ texCall'.op \in {"setRow", "setPixelBytes", "setPixelRgba"}
      /\ ~ texCall'.threw)
     => \A j \in 0..(td.bytes.len - 1) :
          Elem(td'.bytes, j) =
            WrittenAt(td.bytes,
                      texCall'.y * td.stride
                        + (IF texCall'.op = "setRow" THEN 0
                           ELSE texCall'.x * td.bpp),
                      CallValues(texCall'), j)]_vars

\* the last call on the setter was one of set, setOne and setInt
SetterCalled == setCall.op \in {"set", "setOne", "setInt"}

\* the names handed to a call that have no location in the program
Unlocated(call) ==
  {n \in DOMAIN call.uniforms : getUniformLocation(setterGl, n) = Null}

\* C12: set, setOne and setInt do nothing for a name that has no location
\* in the program: no setUniform runs for it (so no upload call is issued
\* and nothing is raised) and the context holds no uniform value for it,
\* whether the name was looked up before or not.
C12_NoLocationIsNoOp ==
  SetterCalled
    => \A n \in Unlocated(setCall) :
         /\ n \notin DOMAIN setCall.outs
         /\ n \notin DOMAIN setterGl.uniforms

\* a later call for a name without location
C12_Witness ==
  /\ SetterCalled
  /\ "u_missing" \in DOMAIN setCall.uniforms
  /\ setCall.again
  /\ "u_missing" \notin DOMAIN setCall.outs
  /\ setter.locationCache["u_missing"] = Null

\* the names for which the last call issued an upload call
Uploaded(call) == {n \in DOMAIN call.outs : call.outs[n].calls # <<>>}

\* C13: every upload call of set, setOne and setInt is issued while the
\* setter's own program is the program in use, whichever program (or none)
\* was in use when the call began, and it is the setter's program that the
\* call leaves in use.
C13_UploadsUnderOwnProgram ==
  (SetterCalled /\ Uploaded(setCall) # {})
    => /\ setCall.program = setter.program
       /\ \A n \in Uploaded(setCall) :
            getUniformLocation(setterGl, n) = [location |-> n]

\* uploads of a call that began with another program in use, and of one
\* that began with none, have reached the setter's program
C13_Witness ==
  /\ SetterCalled
  /\ setCall.started = OtherProgram
  /\ setCall.program = SetterProgram
  /\ "u_float" \in Uploaded(setCall)
  /\ "u_float" \in DOMAIN setterGl.uniforms

\* C16: in set(), an entry that fails (a name without location, a scalar
\* for a vector, an array of unsupported length, an unrecognised object)
\* leaves its uniform as it was, what it raises is caught and logged inside
\* its setUniform, and every entry that fits is uploaded: the program holds
\* the arguments of its upload call afterwards.
C16_FailingEntryAbortsNothing ==
  [][setCall'.op = "set"
     => \A n \in DOMAIN setCall'.uniforms :
          IF n \in DOMAIN SetterFits /\ setCall'.uniforms[n] = SetterFits[n]
          THEN /\ n \in DOMAIN setterGl'.uniforms
               /\ setterGl'.uniforms[n]
                    = UploadedArgs(SetterFits[n], SetterActive[n])
          ELSE /\ n \in DOMAIN setCall'.outs
                    => /\ setCall'.outs[n].calls = <<>>
                       /\ setCall'.outs[n].logged
               /\ n \in DOMAIN setterGl'.uniforms
                    <=> n \in DOMAIN setterGl.uniforms
               /\ n \in DOMAIN setterGl.uniforms
                    => setterGl'.uniforms[n] = setterGl.uniforms[n]]_vars

\* a set() with an unknown name, an unrecognised object and an array of
\* unsupported length whose fourth entry was uploaded for the first time
C16_Witness ==
  /\ setCall.op = "set"
  /\ DOMAIN setCall.uniforms = DOMAIN SetterEntries
  /\ setCall.uniforms["u_float"] = SetterFails["u_float"]
  /\ setCall.uniforms["u_color"] = SetterFails["u_color"]
  /\ setCall.uniforms["u_ivec"] = SetterFits["u_ivec"]
  /\ setCall.outs["u_color"].raised
  /\ ~ setCall.again
  /\ DOMAIN setterGl.uniforms = {"u_ivec"}
  /\ setterGl.uniforms["u_ivec"] = <<JsInt(1), JsInt(2), JsInt(3)>>

\* the vector types of uniforms
VectorTypes ==
  {"FLOAT_VEC2", "FLOAT_VEC3", "FLOAT_VEC4", "INT_VEC2", "INT_VEC3",
   "INT_VEC4", "BOOL_VEC2", "BOOL_VEC3", "BOOL_VEC4"}

\* C14 as stated: a number handed to setUniform for a located uniform of a
\* vector type (with a program bound) raises an error and issues no upload
\* call, in both implementations.
C14_ScalarIntoVectorRaises ==
  (/\ uniOut # NoValue
   /\ uniIn.g.currentProgram # Null
   /\ uniIn.location # Null
   /\ uniIn.value.t = "number"
   /\ uniIn.uniformInfo # Null
   /\ uniIn.uniformInfo.type \in VectorTypes)
  => uniOut.out.raised /\ uniOut.out.calls = <<>>

\* the number of components of a vector type
Arity(type) ==
  CASE type \in {"FLOAT_VEC3", "INT_VEC3"} -> 3
    [] type \in {"FLOAT_VEC4", "INT_VEC4"} -> 4

\* a float in 0..1, and an integer in 0..255
InUnitRange(x) == x # NaN /\ x[1] >= 0 /\ x[1] <= FloatOne
IsByte(x) == x # NaN /\ x[1] % FloatOne = 0 /\ x[1] >= 0 /\ x[1] <= 255 * FloatOne

\* a colour with all four channels handed to setUniform for a located
\* uniform of a three- or four-component float or integer vector type
ColorCall ==
  /\ uniOut # NoValue
  /\ uniIn.g.currentProgram # Null
  /\ uniIn.location # Null
  /\ uniIn.value.t \in {"rgba", "Colord"}
  /\ uniIn.value.rgba.a # NaN
  /\ uniIn.uniformInfo # Null
  /\ uniIn.uniformInfo.type \in {"FLOAT_VEC3", "FLOAT_VEC4", "INT_VEC3",
                                 "INT_VEC4"}

\* the components uploaded are as many as the type has, each in the range of
\* the type
ColorInRange ==
  /\ uniOut.out.calls # <<>>
  /\ LET args == uniOut.out.calls[1].args
         type == uniIn.uniformInfo.type
     IN  /\ Len(args) = Arity(type)
         /\ \A i \in 1..Len(args) :
              IF type \in {"FLOAT_VEC3", "FLOAT_VEC4"}
              THEN InUnitRange(args[i])
              ELSE IsByte(args[i])

\* C15 as stated: for a colour with channels r, g, b and a, setUniform uploads
\* three components to a vec3 / ivec3 and four to a vec4 / ivec4, each in 0..1
\* for a float vector and an integer in 0..255 for an integer vector, alpha
\* included, in both implementations.
C15_ColorComponentsInRange == ColorCall => ColorInRange

\* C17: when getContext gives no context, a shader is not created or no
\* program is linked, init() has aborted (by returning or by the exception)
\* with nothing set up after the failing step and the layer not marked for
\* redraw, and no renderLayer afterwards issues a draw call.
C17_SetupFailureIsFatal ==
  (frame.op # "new" /\ frame.setup # "ok")
    => /\ ~ layer.needsRedraw
       /\ layer.uniformSetter = Null
       /\ layer.colorPalette = Null
       /\ layer.tileTextureData = Null
       /\ frame.op = "init" => (frame.threw <=> frame.setup # "noContext")
       /\ frame.op = "renderLayer" => ~ frame.drew
       /\ ctx # Null => ctx.drawn = Null

\* a frame that refreshed and did not draw, the shaders having failed
C17_Witness ==
  /\ frame.op = "renderLayer"
  /\ frame.setup = "noShader"
  /\ frame.refreshed
  /\ ~ frame.drew
  /\ layer.gl # Null
  /\ layer.program = False

\* C18: a renderLayer stages, uploads and draws only when Date.now() is
\* more than refreshRate past lastRefresh, which holds the time of the last
\* frame that did so (no other step changes it), so two such frames are more
\* than refreshRate apart; a frame that is skipped still draws the canvas
\* onto the context it was given and touches neither the layer nor the GPU.
C18_RefreshRateLimit ==
  [][/\ RenderLayer
        => /\ frame'.refreshed
                => /\ clock > layer.lastRefresh + refreshRate
                   /\ layer'.lastRefresh = clock
           /\ ~ frame'.refreshed
                => /\ layer' = layer
                   /\ ctx' = ctx
                   /\ ~ frame'.recomputed /\ ~ frame'.paletteUploaded
                   /\ ~ frame'.tileUploaded /\ ~ frame'.drew
                   /\ ~ layer.alternativeView => frame'.blit
     /\ ~ RenderLayer => layer'.lastRefresh = layer.lastRefresh]_vars

\* a frame exactly refreshRate after the frame that drew is skipped and
\* composites the canvas
C18_Witness ==
  /\ frame.op = "renderLayer"
  /\ ~ frame.refreshed
  /\ frame.blit
  /\ ctx # Null /\ ctx.drawn # Null
  /\ clock = layer.lastRefresh + refreshRate

\* C19 as stated: a renderLayer within nodrawDragDuration of the last drag
\* gesture does not stage, upload or draw.
C19_NoRefreshAfterDrag ==
  [][(/\ RenderLayer
      /\ dragged # 0
      /\ clock <= dragged + nodrawDragDuration)
     => ~ frame'.refreshed]_vars

\* C20: every refreshed frame of a layer that has its tile TextureData
\* points it at the owner buffer of the game and uploads it, so the tile
\* texture holds the content of the owner buffer as it is at that frame; and
\* no call on the layer (init, renderLayer, tick, dispose) changes an element
\* of the owner buffer.
C20_TileTextureIsOwnerBuffer ==
  [][/\ (RefreshedFrame /\ layer.tileTextureData # Null)
        => /\ layer'.tileTextureData.bytes = [viewOf |-> "ownerBuffer"]
           /\ frame'.tileUploaded
           /\ ctx'.textures[layer'.tileTextureData.gpuTexture.handle].data
                = gameView.ownerBuffer
     /\ (CallInit \/ RenderLayer \/ CallTick \/ CallDispose)
        => gameView'.ownerBuffer = gameView.ownerBuffer]_vars

\* a second upload of the tile texture, after a tile was conquered
C20_Witness ==
  /\ frame.op = "renderLayer"
  /\ frame.refreshed
  /\ frame.tileUploaded
  /\ Elem(gameView.ownerBuffer, 0) # 0
  /\ LET t == ctx.textures[layer.tileTextureData.gpuTexture.handle]
     IN  t.uploads = 2 /\ t.data = gameView.ownerBuffer

\* C21 as stated: a tile word with the fallout bit set is painted the
\* fallout colour, whatever else holds.
C21_FalloutAlwaysFalloutColor ==
  (fragOut # NoValue /\ ShadedTile.isFallout)
    => fragOut.fragColor = FalloutPaint

\* C21 (amended): for a tile word with the fallout bit set, whatever its
\* ownerId, defense bit and neighbours and whoever is focused, the colour
\* territoryColor computes is the fallout colour with the territory alpha;
\* the tile overlay, when on, is mixed over that colour, and without the
\* palette overlay that is the colour of the pixel.
C21_FalloutFirst ==
  (fragOut # NoValue /\ ShadedTile.isFallout)
    => /\ fragOut.territoryColor =
            IF shaderUniforms.debug_draw_tiles
            THEN DebugDrawTileData(u_tileTexture, fragCoord, FalloutPaint)
            ELSE FalloutPaint
       /\ ~ shaderUniforms.debug_draw_palette
            => fragOut.fragColor = fragOut.territoryColor

\* an owned, defended border tile of the focused player in fallout was
\* painted the fallout colour
C21_Witness ==
  /\ fragOut # NoValue
  /\ ShadedTile.isFallout
  /\ ShadedTile.ownerId = 1
  /\ ShadedTile.hasDefenseBonus
  /\ fragOut.isBorder
  /\ shaderUniforms.u_focusedPlayerId = 1
  /\ ~ shaderUniforms.debug_draw_tiles
  /\ ~ shaderUniforms.debug_draw_palette
  /\ fragOut.fragColor = FalloutPaint

\* the red, green and blue of a colour
Rgb(c) == <<c[1], c[2], c[3]>>

\* the colour the theme gives the owner of the shaded tile for a palette row
OwnerRgb(row) ==
  LET c == ThemeColor(ShaderTheme, ShadedTile.ownerId, row)
  IN  <<Unorm(c.r), Unorm(c.g), Unorm(c.b)>>

\* the shaded tile is owned, not in fallout, and was classified a border
BorderPixel ==
  /\ fragOut # NoValue
  /\ fragOut.isBorder
  /\ ShadedTile.ownerId # UNOWNED_TERRITORY_ID
  /\ ~ ShadedTile.isFallout

\* the owner of the shaded tile is the focused player
OwnerFocused ==
  /\ shaderUniforms.u_hasFocusedPlayer > 0
  /\ ShadedTile.ownerId = shaderUniforms.u_focusedPlayerId

\* the defended row of a pixel: light where x + y is even, dark where odd
DefendedRow(xy) ==
  IF (xy[1] + xy[2]) % 2 = 0 THEN PLAYER_COLOR_DEFENSE_BONUS_BORDER_LIGHT
  ELSE PLAYER_COLOR_DEFENSE_BONUS_BORDER_DARK

\* the colour the priority of the claim gives a border pixel
PriorityRgb ==
  IF OwnerFocused THEN shaderUniforms.u_focusedBorderColor
  ELSE IF ShadedTile.hasDefenseBonus THEN OwnerRgb(DefendedRow(fragCoord))
  ELSE OwnerRgb(PLAYER_COLOR_BORDER)

\* C22 as stated: a border pixel of an owned tile without fallout has the
\* colour of the priority focused / defended light or dark / plain border.
C22_BorderPixelHasPriorityColor ==
  BorderPixel => Rgb(fragOut.fragColor) = PriorityRgb

\* C22 (amended): with the debug overlays off, a border pixel of an owned
\* tile without fallout has the focused-border colour when a player is
\* focused and owns the tile; otherwise, with the defense bit, the owner's
\* defended-light colour where x XOR y is even and defended-dark where it
\* is odd, which differs from the defended colour of each 4-adjacent pixel;
\* otherwise the owner's colour of palette row 3.  Without a focused player
\* the colour is not the focused-border colour.
C22_BorderColorPriority ==
  (BorderPixel /\ ~ shaderUniforms.debug_draw_tiles
     /\ ~ shaderUniforms.debug_draw_palette)
    => /\ Rgb(fragOut.territoryColor) = PriorityRgb
       /\ fragOut.fragColor = fragOut.territoryColor
       /\ shaderUniforms.u_hasFocusedPlayer = 0
            => Rgb(fragOut.fragColor) # shaderUniforms.u_focusedBorderColor
       /\ (ShadedTile.hasDefenseBonus /\ ~ OwnerFocused)
            => \A i \in NeighborsInTexture :
                 OwnerRgb(DefendedRow(
                   <<fragCoord[1] + NeighborOffsets[i][1],
                     fragCoord[2] + NeighborOffsets[i][2]>>))
                   # Rgb(fragOut.fragColor)

\* a defended border tile of the focused player has the focused-border colour
C22_Witness ==
  /\ BorderPixel
  /\ OwnerFocused
  /\ ShadedTile.hasDefenseBonus
  /\ ~ shaderUniforms.debug_draw_tiles
  /\ ~ shaderUniforms.debug_draw_palette
  /\ Rgb(fragOut.fragColor) = shaderUniforms.u_focusedBorderColor
  /\ Rgb(fragOut.fragColor) # OwnerRgb(DefendedRow(fragCoord))

\* C23 as stated: with the debug overlays off, every border pixel of an
\* owned tile (focused, defended or plain) has the alpha u_borderAlpha and
\* every other owned pixel the alpha u_territoryAlpha, whatever alpha byte
\* the palette holds.
C23_AlphaIsOneOfTwoConstants ==
  (/\ fragOut # NoValue
   /\ ShadedTile.ownerId # UNOWNED_TERRITORY_ID
   /\ ~ ShadedTile.isFallout
   /\ ~ shaderUniforms.debug_draw_tiles
   /\ ~ shaderUniforms.debug_draw_palette)
    => fragOut.fragColor[4] =
         IF fragOut.isBorder THEN shaderUniforms.u_borderAlpha
         ELSE shaderUniforms.u_territoryAlpha

\* the fragments of a draw: one per tile of the map
DrawnFragments == (0..(MapWidth - 1)) \X (0..(MapHeight - 1))

\* C24 as stated: in every frame the layer draws, with the uniforms the layer
\* uploaded, no fragment fetches a texel of column 0 of the palette texture.
C24_ColumnZeroNeverRead ==
  (frame.op = "renderLayer" /\ frame.drew) =>
    LET tex == ctx.textures[layer.tileTextureData.gpuTexture.handle]
        pal == ctx.textures[layer.colorPalette.textureData.gpuTexture.handle]
    IN  \A xy \in DrawnFragments :
          \A undefT \in {<<0, 0, 0, 0>>, <<1, 1, 1, 1>>} :
            \A f \in PaletteFetches(tex, pal, ProgramUniforms(ctx), xy, undefT) :
              f[1] # 0

\* C25: while the alternate view is on, renderLayer stages nothing, uploads
\* nothing, issues no draw call, draws nothing onto the 2D context and leaves
\* the layer (lastRefresh included) and the GL context as they were; with the
\* alternate view off it draws onto the 2D context, and refreshes when a
\* refresh is due.
C25_AlternateViewSuspendsRendering ==
  [][RenderLayer =>
       IF layer.alternativeView
       THEN /\ layer' = layer
            /\ ctx' = ctx
            /\ ~ frame'.refreshed /\ ~ frame'.recomputed
            /\ ~ frame'.paletteUploaded /\ ~ frame'.tileUploaded
            /\ ~ frame'.drew /\ ~ frame'.blit
       ELSE /\ frame'.blit
            /\ frame'.refreshed <=> refreshDue(layer, clock)
            /\ frame'.refreshed => layer'.lastRefresh = clock]_vars

\* a frame in the alternate view did nothing although a refresh was due and
\* the layer could draw
C25_Witness ==
  /\ frame.op = "renderLayer"
  /\ layer.alternativeView
  /\ ~ frame.blit
  /\ ~ frame.refreshed
  /\ layer.gl # Null
  /\ refreshDue(layer, clock)

\* the texture object of a TextureData exists in the context and holds the
\* bytes the TextureData refers to
LiveTexture(t, c, arr) ==
  /\ t.gpuTexture # Null
  /\ t.gpuTexture.handle \in DOMAIN c.textures
  /\ c.textures[t.gpuTexture.handle].deletes = 0
  /\ c.textures[t.gpuTexture.handle].data = arr

\* what the last draw call of a context sampled; Null when there was none
LastDraw(c) == IF c = Null THEN Null ELSE c.drawn

\* C26: a frame that issues the draw call is a refreshing frame of a layer that
\* holds its context; the draw samples the palette texture on unit 0 and the
\* tile texture on unit 1, both with a texture object that is not deleted and
\* holds the bytes staged in this frame, under the uniforms staged in this
\* frame (stage, then upload, then draw); a frame of a layer without its
\* context (never initialised, or disposed) issues no draw call, and init,
\* tick and dispose issue none.
C26_DrawOnlyAfterStageAndUpload ==
  [][/\ (RenderLayer /\ frame'.drew)
        => /\ frame'.refreshed
           /\ layer.gl # Null
           /\ LiveTexture(layer'.colorPalette.textureData, ctx',
                          updateCpuData(layer.colorPalette,
                                        gameView).cp.textureData.bytes)
           /\ LiveTexture(layer'.tileTextureData, ctx', gameView.ownerBuffer)
           /\ ctx'.drawn.units
                = <<layer'.colorPalette.textureData.gpuTexture,
                    layer'.tileTextureData.gpuTexture>>
           /\ ProgramUniforms(ctx').u_focusedPlayerId = gameView.focused
           /\ ProgramUniforms(ctx').u_falloutColor[2]
                = Unorm(FalloutColor(gameView.theme).g)
     /\ (RenderLayer /\ layer.gl = Null) => (~ frame'.drew /\ ctx' = ctx)
     /\ (CallTick \/ CallDispose) => LastDraw(ctx') = LastDraw(ctx)
     /\ CallInit => LastDraw(ctx') = Null]_vars

\* the first frame after init creates both textures and draws with them
C26_Witness ==
  /\ frame.op = "renderLayer"
  /\ frame.drew
  /\ ctx.textures[layer.colorPalette.textureData.gpuTexture.handle].uploads = 1
  /\ ctx.textures[layer.tileTextureData.gpuTexture.handle].uploads = 1
  /\ ctx.drawn.units = <<[handle |-> 1], [handle |-> 2]>>

\* C27 as stated: when the introspected type of the uniform is available, the
\* setUniform of UniformSetter.ts and the setUniform of part_000 issue the
\* same upload calls with the same arguments for the same context, location
\* and value, or both issue none.
C27_ImplementationsAgree ==
  (uniOut # NoValue /\ uniIn.uniformInfo # Null)
    => setUniform(uniIn.g, uniIn.location, uniIn.value,
                  uniIn.uniformInfo).calls
         = setUniform_part000(uniIn.g, uniIn.location, uniIn.value,
                              uniIn.uniformInfo).calls

\* the palette row the n-th store of updateCpuData is made for: each column
\* is stored row by row, four bytes a row
StoreRow(n) == ((n - 1) \div 4) % PALETTE_TEXTURE_HEIGHT

\* C28 as stated: every store of updateCpuData for row r lies inside the
\* buffer, in row r, at a column x with 1 <= x < width, and the bytes of the
\* columns above the largest small ID are unchanged.
C28_WritesStayInRow ==
  [][paletteCall'.op = "updateCpuData" =>
       LET t == palette.textureData
           stores == paletteCall'.stores
       IN  /\ \A n \in DOMAIN stores :
                LET o == stores[n][1]
                    x == (o - StoreRow(n) * t.stride) \div t.bpp
                IN  /\ o < t.bytes.len
                    /\ o \div t.stride = StoreRow(n)
                    /\ 1 <= x /\ x < t.width
           /\ \A j \in 0..(t.bytes.len - 1) :
                (j % t.stride) \div t.bpp > paletteGame.playerCount
                  => Elem(palette'.textureData.bytes, j) = Elem(t.bytes, j)]_vars

\* the fields dispose() clears, other than the program, are null
HandlesNull(l) ==
  /\ l.gl = Null
  /\ l.vertexBuffer = Null
  /\ l.colorPalette = Null
  /\ l.tileTextureData = Null
  /\ l.uniformSetter = Null

\* no buffer, program or texture of the context was deleted twice
DeletedAtMostOnce(c) ==
  c # Null =>
    /\ c.bufferDeletes <= 1
    /\ c.programDeletes <= 1
    /\ \A h \in DOMAIN c.textures : c.textures[h].deletes <= 1

\* C29 as stated: after dispose the context, program, vertex buffer, palette,
\* tile texture and uniform setter of the layer are all null.
C29_DisposeNullsEveryHandle ==
  frame.op = "dispose" => (HandlesNull(layer) /\ layer.program = Null)

\* C29 (amended): after dispose the context, vertex buffer, palette, tile
\* texture and uniform setter of the layer are null and the program is null,
\* or still the value false when init() had created no shader; no buffer,
\* program or texture is ever deleted twice; and a dispose or a renderLayer
\* of a layer without its context leaves the layer's handles and the whole GL
\* context as they were.
C29_DisposeIsRepeatable ==
  [][/\ CallDispose
        => /\ HandlesNull(layer')
           /\ layer'.program = IF frame.setup = "noShader" THEN False ELSE Null
           /\ DeletedAtMostOnce(ctx')
     /\ ((CallDispose \/ RenderLayer) /\ layer.gl = Null)
        => /\ ctx' = ctx
           /\ HandlesNull(layer')
           /\ layer'.program = layer.program]_vars

\* a frame after the dispose of a layer that had drawn: buffer, program and
\* both textures were deleted once, and the frame drew nothing
C29_Witness ==
  /\ frame.op = "renderLayer"
  /\ frame.setup = "ok"
  /\ layer.gl = Null
  /\ ~ frame.drew
  /\ ctx.bufferDeletes = 1
  /\ ctx.programDeletes = 1
  /\ Len(ctx.textures) = 2
  /\ \A h \in DOMAIN ctx.textures : ctx.textures[h].deletes = 1

====
